---- MODULE Spec2Model ----
(***************************************************************************)
(* Model of the evidence lookup cache (search_web), of the per-unit        *)
(* generation loop over the outline (main) and of chart validation and     *)
(* rendering (validate_json_chart_data, writer_pro_chart,                  *)
(* create_chart_from_description, embed_chart_in_markdown) of the          *)
(* research-report orchestrator.                                           *)
(*                                                                         *)
(* Text values are abstracted to small token alphabets:                    *)
(*   - a query is a sequence of word tokens; the trigger terms of          *)
(*     urgent_keywords are the tokens of UrgentKeywords;                   *)
(*   - a backend answer ("Answer: ...\n\nDetails:\n...") is one of the     *)
(*     strings of Combined; the empty result is "" and Python's None       *)
(*     is NoneVal.                                                         *)
(*   - a title is a sequence of characters, a chart spec is its kind, its  *)
(*     title flag, its number of labels and the value rows of its          *)
(*     datasets.                                                           *)
(* The wall clock (time.time()) is the variable now, advanced by Tick.     *)
(***************************************************************************)
EXTENDS Integers, Sequences, FiniteSets, TLC

\* ------------------------------------------------------------------ bounds
\* largest max_retries argument the standalone driver passes
MaxRetries == 2
\* number of clock advances
MaxTicks == 2
\* largest number of labels, and of values of one dataset, of a chart spec
MaxLabels == 2

\* the most chunks a MaterialManager holds
MaxChunks == 3

\* the most calls of retrieve in a session
MaxCalls == 2

\* the longest text given to smart_chunk_material
MaxText == 5

\* the largest chunk_size
MaxChunkSize == 3

\* the most files MaterialManager.load finds in the material folder
MaxFiles == 3

\* ----------------------------------------------------- program constants
\* cache time-to-live in seconds: time.time() - timestamp < 86400
TTL == 86400
\* search_web(..., max_retries=3)
DEFAULT_MAX_RETRIES == 3
\* CONF.QUALITY_THRESHOLD, default 8.0, in tenths of a point
QUALITY_THRESHOLD == 80
\* CONF.MAX_REFINEMENT_ROUNDS, default 4
MAX_REFINEMENT_ROUNDS == 4
\* len(local_ctx) < 500: local evidence too short to do without the web
SHORT_LOCAL_CTX == 500

\* ------------------------------------------------------------ vocabulary
\* urgent_keywords: 数据 统计 最新 2024 2025 报告 指数 排名 分析 现状
UrgentKeywords ==
    {"data", "stats", "latest", "y2024", "y2025", "report", "index",
     "ranking", "analysis", "status"}

\* word tokens that occur in the modelled queries
Tokens == <<"wind", "topic", "s1", "s2", "s3", "data", "analysis", "status">>

\* queries the standalone driver passes to search_web
Queries == {<< >>, <<"wind">>, <<"wind", "data">>}

\* an outline of one chapter with one section of two subsections. Chapter
\* and section titles are sequences of characters, subsections are word tokens
OutlineA ==
    << [title |-> <<"A", " ", "1">>,
        sections |-> << [title |-> <<"I", "n", "t", "r", "o", "/", "x">>,
                         subs |-> <<"s1", "s2">>] >>] >>

\* an outline of two chapters: a section of one subsection, then a section
\* without subsections
OutlineB ==
    << [title |-> <<"A", " ", "1">>,
        sections |-> << [title |-> <<"I", "n">>, subs |-> <<"s1">>] >>],
       [title |-> <<"B">>,
        sections |-> << [title |-> <<"E">>, subs |-> << >>] >>] >>

\* an outline of one section of three subsections
OutlineC ==
    << [title |-> <<"A", " ", "1">>,
        sections |-> << [title |-> <<"I", "n">>, subs |-> <<"s1", "s2", "s3">>] >>] >>

\* an outline of two chapters: a section of one subsection, then two
\* sections of one subsection each
OutlineD ==
    << [title |-> <<"A", " ", "1">>,
        sections |-> << [title |-> <<"I", "n">>, subs |-> <<"s1">>] >>],
       [title |-> <<"B">>,
        sections |-> << [title |-> <<"E">>, subs |-> <<"s2">>],
                        [title |-> <<"F">>, subs |-> <<"s3">>] >>] >>

\* the outlines a run of main is given
Outlines == {OutlineA, OutlineB}

\* the texts a successful backend response can be combined into
Combined == {"A1", "A2"}

\* the answer the backend gives during a run of main
RunAnswers == {"A1"}

\* the value of a Python function that falls off its end
NoneVal == "<None>"

\* what one requests.post attempt can yield: status 200 with a usable body,
\* status 403, or a transient failure (an exception, another non-200 status,
\* a body that cannot be combined)
Responses == {"ok", "forbidden", "error"}

\* what the cache write can do: succeed, fail in open() (file untouched),
\* fail in json.dump() after open() has truncated the file
WriteOutcomes == {"ok", "openFail", "dumpFail"}

\* the cache write during a run of main: the cache directory of the run is
\* new and can be written (what a failed write leaves behind is studied on
\* search_web alone; main never looks a query up twice in a run)
RunWriteOutcomes == {"ok"}

\* generate_global_thesis's text, kept as global_thesis for the whole run
GlobalThesis == "T"

\* what call_pro can return for the summary prompt: nothing, or one of two
\* texts (the prompt is sampled at temperature 0.35)
SummaryReplies == {NoneVal, "S1", "S2"}

\* the reply to the summary prompt during a run of main
RunSummaries == {"S1"}

\* lengths of the local evidence kb.retrieve can return: nothing, a short
\* block, a long block
LocalCtxLens == {0, SHORT_LOCAL_CTX - 1, SHORT_LOCAL_CTX}

\* the texts the generation backend can return: a draft, two edited
\* versions; "" stands for an empty or failed response
Drafts == {"", "D"}
Edits == {"", "E1", "E2"}

\* the configured refinement caps considered: none, and the default
RoundCaps == {0, MAX_REFINEMENT_ROUNDS}

\* the clock advance offered to the environment: half a TTL, so that record
\* ages 0, TTL/2 (fresh), TTL (just expired) and beyond occur
TickStep == TTL \div 2

VARIABLES
    keyPresent,   \* a non-empty TAVILY_API_KEY is configured in this process
    warned,       \* _TAVILY_KEY_WARNED
    warnCount,    \* missing-key warnings printed by this process
    store,        \* the cache directory: a set of files
    now,          \* time.time()
    ticks,        \* clock advances so far
    pc,           \* "idle" | "attempt": position of the search_web activation
    call,         \* the running search_web activation
    last,         \* the most recent completed search_web call of this process
    mark,         \* an earlier lookup that stored its answer, kept for comparison
    maxRounds,    \* CONF.MAX_REFINEMENT_ROUNDS of this run
    outline,      \* outline.get('chapters', [])
    ppc,          \* position of main in its writing loop
    ci,           \* index of the current chapter
    si,           \* index of the current section in its chapter
    ui,           \* index of the current subsection in its section
    secFiles,     \* the section files that exist: name -> content
    fullBook,     \* full_book: headings and section contents, in order
    localCtx,     \* len(local_ctx) of the current unit
    unit,         \* final_body, quality_score, chart and re-edit count of the current unit
    secContent,   \* sec_content: what the current section holds so far
    failed,       \* failed_sections
    finalized,    \* the units written so far, in order
    trace,        \* every unit main has left so far, in order, with what it was given
    ended,        \* the unit main has left last, with the stages it went through
    anyContent,   \* any_content
    rend,         \* the most recent render: spec, backends called, outcome
    qual,         \* a text given to evaluate_content_quality and its score
    kb,           \* a MaterialManager: its chunks, its vector index, its last retrieve
    split,        \* a text given to smart_chunk_material and its chunks
    tier2,        \* a run of test_tier2.py: its position and the test's documents
    peer,         \* a second process inside search_web: its position in the cache write
    rolling,      \* last_exec_summary, and every value main has set it to
    loader        \* MaterialManager.load: the files found, its position, chunks, failed_files

searchVars == <<keyPresent, warned, warnCount, store, now, ticks, pc, call, last, mark>>

mainVars == <<maxRounds, outline, ppc, ci, si, ui, secFiles, fullBook, localCtx, unit,
              secContent, failed, finalized, trace, ended, anyContent>>

\* the state of the functions studied on their own
pureVars == <<qual, kb, split>>

\* the state of the second process, of the test run and of the summaries
auxVars == <<tier2, peer, rolling, loader>>

libVars == <<rend, pureVars, auxVars>>

\* ------------------------------------------------------- pure functions

TokenCode(t) == CHOOSE i \in 1..Len(Tokens) : Tokens[i] = t

\* hashlib.md5(query.encode('utf-8')).hexdigest(): a stable, collision-free
\* name computed from the query text alone (positional code of the tokens)
RECURSIVE Fingerprint(_)
Fingerprint(q) ==
    IF q = << >> THEN 0
    ELSE TokenCode(Head(q)) + (Len(Tokens) + 1) * Fingerprint(Tail(q))

\* any(kw in query for kw in urgent_keywords)
HasTrigger(q) == \E i \in 1..Len(q) : q[i] \in UrgentKeywords

\* 2 ** attempt
RECURSIVE Pow2(_)
Pow2(k) == IF k = 0 THEN 1 ELSE 2 * Pow2(k - 1)

\* the files of the cache directory named name (os.path.exists(cache_file))
FilesNamed(name) == {f \in store : f.name = name}

\* mutation: the record is written without the time of the write
NewRecord_NoTime(q, combined) ==
    [name |-> Fingerprint(q), kind |-> "rec", query |-> q,
     result |-> combined, timestamp |-> 0]

\* the record json.dump writes for a successful lookup
NewRecord(q, combined) ==
    [name |-> Fingerprint(q), kind |-> "rec", query |-> q,
     result |-> combined, timestamp |-> now]

\* what open(cache_file, 'w') leaves when json.dump fails after it
TruncatedFile(q) ==
    [name |-> Fingerprint(q), kind |-> "junk", query |-> << >>,
     result |-> "", timestamp |-> 0]

\* a record an earlier process wrote for the query "wind", half a TTL
\* before this process started
OldRecord ==
    [name |-> Fingerprint(<<"wind">>), kind |-> "rec", query |-> <<"wind">>,
     result |-> "A0", timestamp |-> 0 - (TTL \div 2)]

\* mutation: a record is served whatever its age
CacheFresh_NoExpiry(f) == f.kind = "rec"

\* mutation: the age is compared with an hour instead of a day
CacheFresh_Hour(f) == f.kind = "rec" /\ now - f.timestamp < TTL \div 24

\* what smoke_test_net.py leaves under the name of query q: the backend's
\* raw response, a JSON object with neither "result" nor "timestamp"
RawResponse(q) ==
    [name |-> Fingerprint(q), kind |-> "raw", query |-> q,
     result |-> "", timestamp |-> 0]

\* time.time() = 0, the default of cached.get('timestamp', 0): the clock of
\* the model starts at the start of the run, more than a TTL after it
Epoch == 0 - 2 * TTL

\* mutation: every file is read as a record, whatever it holds
CacheFresh_AnyFile(f) == now - f.timestamp < TTL

\* the freshness test of the cache read. A file that does not load, or
\* that holds no JSON object, raises inside the try and is a miss; an
\* object without timestamp has the age of the epoch
CacheFresh(f) ==
    /\ f.kind \in {"rec", "raw"}
    /\ now - (IF f.kind = "raw" THEN Epoch ELSE f.timestamp) < TTL

\* the cache read: the fresh records under the query's file name
CacheHit(q) == {f \in FilesNamed(Fingerprint(q)) : CacheFresh(f)}

\* mutation: the gate ignores force
GateBlocks_IgnoresForce(q, force) == ~HasTrigger(q)

\* the gate for non-forced lookups
GateBlocks(q, force) == ~force /\ ~HasTrigger(q)

\* mutation: every write creates a file of its own instead of replacing the
\* file of the query
StoreAfterWrite_NewFile(q, combined, w) ==
    IF w = "ok" THEN store \cup {NewRecord(q, combined)} ELSE store

\* mutation: a failed write leaves a record behind that holds no result
StoreAfterWrite_EmptyRecord(q, combined, w) ==
    IF w = "ok"
    THEN (store \ FilesNamed(Fingerprint(q))) \cup {NewRecord(q, combined)}
    ELSE (store \ FilesNamed(Fingerprint(q))) \cup {NewRecord(q, "")}

\* the cache directory after the write of a successful lookup
StoreAfterWrite(q, combined, w) ==
    CASE w = "ok" -> (store \ FilesNamed(Fingerprint(q))) \cup {NewRecord(q, combined)}
      [] w = "openFail" -> store
      [] w = "dumpFail" -> (store \ FilesNamed(Fingerprint(q))) \cup {TruncatedFile(q)}

\* mutation: status 403 is handled like any other failed status
IsAuthFailure_Never(resp) == FALSE

\* status 403: the key is invalid or its quota is used up
IsAuthFailure(resp) == resp = "forbidden"

\* mutation: off by one, the last attempt sleeps and retries as well
RetryAgain_OffByOne(attempt, n) == attempt < n

\* the retry decision of the except branch
RetryAgain(attempt, n) == attempt < n - 1

\* mutation: the flag is not consulted
WarnNow_Always(w) == TRUE

\* whether the missing-key warning is printed, given _TAVILY_KEY_WARNED
WarnNow(w) == ~w

\* ------------------------------------------------------------- search_web

NoCall == [q |-> << >>, force |-> FALSE, n |-> 0, t0 |-> 0,
           attempt |-> 0, resps |-> << >>, sleeps |-> << >>]

\* a completed call: its arguments, the time at its entry, the backend
\* responses and backoff sleeps in order, the answer the backend gave (if any),
\* the return value, the outcome of the cache write, the missing-key
\* warnings it printed and whether it found the key missing
Done(c, answer, ret, wrote, warns) ==
    [done |-> TRUE, q |-> c.q, force |-> c.force, n |-> c.n, t0 |-> c.t0,
     resps |-> c.resps, sleeps |-> c.sleeps, answer |-> answer, ret |-> ret,
     wrote |-> wrote, warns |-> warns, nokey |-> ~keyPresent]

\* no call completed yet in this process
NoObs == [Done(NoCall, "", "", "none", 0) EXCEPT !.done = FALSE, !.nokey = FALSE]

\* search_web returns ret to its caller
Return(c, answer, ret, wrote, warns) ==
    /\ pc' = "idle"
    /\ call' = NoCall
    /\ last' = Done(c, answer, ret, wrote, warns)

\* the cache read of a lookup of q entered now finds a file that json.load
\* cannot load: the exception is caught and the lookup goes on as after a
\* miss
ReadsPartial(q) ==
    /\ keyPresent
    /\ q # << >>
    /\ \E f \in FilesNamed(Fingerprint(q)) : f.kind = "junk"

\* search_web from its entry to its first backend attempt (or early return)
SearchEntry(q, force, n) ==
    LET c == [NoCall EXCEPT !.q = q, !.force = force, !.n = n, !.t0 = now]
    IN  IF ~keyPresent
        THEN /\ warned' = (warned \/ WarnNow(warned))
             /\ warnCount' = IF WarnNow(warned) THEN warnCount + 1 ELSE warnCount
             /\ Return(c, "", "", "none", IF WarnNow(warned) THEN 1 ELSE 0)
        ELSE /\ UNCHANGED <<warned, warnCount>>
             /\ IF q = << >> THEN Return(c, "", "", "none", 0)
                ELSE IF CacheHit(q) # {}
                THEN \E f \in CacheHit(q) : Return(c, "", f.result, "none", 0)
                ELSE IF GateBlocks(q, force) THEN Return(c, "", "", "none", 0)
                ELSE IF n <= 0 THEN Return(c, "", NoneVal, "none", 0)
                ELSE /\ pc' = "attempt"
                     /\ call' = c
                     /\ UNCHANGED last

\* the standalone driver: some caller invokes search_web(q, force, max_retries=n)
Lookup(q, force, n) ==
    /\ pc = "idle"
    /\ ppc = "off"
    /\ SearchEntry(q, force, n)
    /\ UNCHANGED <<keyPresent, store, now, ticks, mark>>
    /\ UNCHANGED <<mainVars, libVars>>

\* one iteration of the retry loop: requests.post answers resp
Attempt(resp, combined, w) ==
    /\ pc = "attempt"
    /\ LET c == [call EXCEPT !.resps = Append(call.resps, resp)]
       IN  IF resp = "ok"
           THEN /\ store' = StoreAfterWrite(c.q, combined, w)
                /\ Return(c, combined, combined, w, 0)
           ELSE /\ store' = store
                /\ IF IsAuthFailure(resp) THEN Return(c, "", "", "none", 0)
                   ELSE IF ~RetryAgain(c.attempt, c.n) THEN Return(c, "", "", "none", 0)
                   ELSE LET d == [c EXCEPT !.attempt = c.attempt + 1,
                                           !.sleeps = Append(c.sleeps, Pow2(c.attempt))]
                        IN  IF d.attempt < d.n
                            THEN /\ call' = d
                                 /\ UNCHANGED <<pc, last>>
                            ELSE Return(d, "", NoneVal, "none", 0)
    /\ UNCHANGED <<keyPresent, warned, warnCount, now, ticks, mark>>
    /\ UNCHANGED <<mainVars, libVars>>

\* no second process
NoPeer == [pc |-> "off", q |-> << >>, combined |-> ""]

\* the file of query q after a writer whose open() came first has written
\* its bytes over what is there: its record when the file is still as its
\* open() left it; when another writer has written the file since, its
\* record or, if its text is the shorter one, its text followed by the rest
\* of the other's, which does not load
FilesAfterLateDump(q, combined) ==
    IF \E f \in FilesNamed(Fingerprint(q)) : f.kind = "rec"
    THEN {NewRecord(q, combined), TruncatedFile(q)}
    ELSE {NewRecord(q, combined)}

\* a second process, inside search_web(q) with the backend's answer in
\* hand, opens the cache file for writing: the file exists and is empty
PeerOpen(q, combined) ==
    /\ peer.pc = "idle"
    /\ q # << >>
    /\ store' = (store \ FilesNamed(Fingerprint(q))) \cup {TruncatedFile(q)}
    /\ peer' = [pc |-> "writing", q |-> q, combined |-> combined]
    /\ UNCHANGED <<keyPresent, warned, warnCount, now, ticks, pc, call, last, mark>>
    /\ UNCHANGED <<mainVars, rend, pureVars, tier2, rolling, loader>>

\* the second process completes json.dump and closes the file
PeerDump ==
    /\ peer.pc = "writing"
    /\ \E f \in FilesAfterLateDump(peer.q, peer.combined) :
          store' = (store \ FilesNamed(Fingerprint(peer.q))) \cup {f}
    /\ peer' = [NoPeer EXCEPT !.pc = "idle"]
    /\ UNCHANGED <<keyPresent, warned, warnCount, now, ticks, pc, call, last, mark>>
    /\ UNCHANGED <<mainVars, rend, pureVars, tier2, rolling, loader>>

\* test_search_robust(q) of smoke_test_net.py, run between two lookups on
\* the cache directory search_web uses by default: the file of q is
\* removed, and written anew with the raw response when the backend
\* answers with status 200
SmokeTest(q, resp) ==
    /\ pc = "idle"
    /\ ppc = "off"
    /\ keyPresent
    /\ store' = (store \ FilesNamed(Fingerprint(q)))
                   \cup (IF resp = "ok" THEN {RawResponse(q)} ELSE {})
    /\ UNCHANGED <<keyPresent, warned, warnCount, now, ticks, pc, call, last, mark>>
    /\ UNCHANGED <<mainVars, libVars>>

\* no lookup kept
NoMark == [done |-> FALSE, q |-> << >>, t0 |-> 0, ret |-> "", calls |-> 0]

\* an observer keeps the lookup that has just returned, when the backend
\* answered it at its first attempt and its record was written
Mark ==
    /\ pc = "idle"
    /\ ppc = "off"
    /\ last.done /\ last.resps = <<"ok">> /\ last.wrote = "ok"
    /\ mark' = [done |-> TRUE, q |-> last.q, t0 |-> last.t0, ret |-> last.ret,
                calls |-> Len(last.resps)]
    /\ UNCHANGED <<keyPresent, warned, warnCount, store, now, ticks, pc, call, last>>
    /\ UNCHANGED <<mainVars, libVars>>

\* the wall clock advances
Tick ==
    /\ ticks < MaxTicks
    /\ now' = now + TickStep
    /\ ticks' = ticks + 1
    /\ UNCHANGED <<keyPresent, warned, warnCount, store, pc, call, last, mark>>
    /\ UNCHANGED <<mainVars, libVars>>

\* the process ends and a new one starts: module globals are reset, the
\* credential is read anew, the cache directory persists
Restart(k) ==
    /\ pc = "idle"
    /\ ppc = "off"
    /\ last.done
    /\ keyPresent' = k
    /\ warned' = FALSE
    /\ warnCount' = 0
    /\ last' = NoObs
    /\ UNCHANGED <<store, now, ticks, pc, call, mark>>
    /\ UNCHANGED <<mainVars, libVars>>

\* ---------------------------------------------------------- chart rendering

\* the chart kinds validate_json_chart_data accepts
ValidatorKinds == {"bar", "line", "pie", "radar", "mixed"}

\* the chart kinds create_chart_from_description has a branch of its own for;
\* every other kind is drawn by its last branch (bar, line, mixed)
StaticKinds == {"pie", "radar", "area", "scatter", "stacked_bar", "bubble", "heatmap"}

\* the ten chart kinds the prompt of call_local lists for the generation backend
ListedKinds ==
    {"bar", "line", "pie", "radar", "area", "scatter", "bubble", "stacked_bar",
     "heatmap", "mixed"}

\* JSON null as a value of a dataset, kept apart from the numbers
Null == 0 - 1

\* the values a dataset can hold
Values == {0, 5, Null}

\* the value lists of a dataset: every list of at most MaxLabels values
Rows == UNION {[1..n -> Values] : n \in 0..MaxLabels}

\* data.datasets: no dataset, one or two
DatasetLists == {<< >>} \cup {<<r>> : r \in Rows} \cup {<<r1, r2>> : r1 \in Rows, r2 \in Rows}

\* a chart spec with a title, two labels and one dataset of two numbers
WellFormedSpec(k) ==
    [kind |-> k, title |-> TRUE, labels |-> 2, datasets |-> << <<5, 0>> >>]

\* the chart specs considered: every shape of data for three kinds, and a
\* well-formed spec for every listed kind and for one that is not listed
ChartSpecs ==
    [kind : {"bar", "pie", "area"}, title : BOOLEAN, labels : 0..MaxLabels,
     datasets : DatasetLists]
    \cup {WellFormedSpec(k) : k \in ListedKinds \cup {"donut"}}

\* what the model-authored plotting code does: no code block came back, the
\* code failed or left no file, the code wrote the PNG
CodeOutcomes == {"none", "fail", "png"}

\* what plotly does once called with data it accepts: the import fails, an
\* exception is raised, only the HTML is written (no kaleido), HTML and PNG
PlotlyOutcomes == {"unavailable", "error", "html", "png"}

\* what matplotlib does: an exception, or the PNG is saved
StaticOutcomes == {"error", "png"}

\* the behaviours of the rendering backends during one render
RenderEnvs ==
    [code : CodeOutcomes, plotly1 : PlotlyOutcomes, plotly2 : PlotlyOutcomes,
     static : StaticOutcomes]

\* the behaviours of the rendering backends during a run of main: plotly is
\* not installed; the model-authored code and matplotlib work or fail
RunRenderEnvs ==
    [code : {"fail", "png"}, plotly1 : {"unavailable"}, plotly2 : {"unavailable"},
     static : StaticOutcomes]

\* float(v) succeeds
IsNumber(v) == v # Null

\* mutation: the length of the values is not compared with that of the labels
ValidateChartData_NoLength(c) ==
    /\ c.kind \in ValidatorKinds
    /\ c.title
    /\ c.datasets # << >>
    /\ \A i \in 1..Len(c.datasets) : \A j \in 1..Len(c.datasets[i]) : IsNumber(c.datasets[i][j])

\* validate_json_chart_data: is_valid
ValidateChartData(c) ==
    /\ c.kind \in ValidatorKinds
    /\ c.title
    /\ c.labels > 0
    /\ c.datasets # << >>
    /\ \A i \in 1..Len(c.datasets) :
          /\ Len(c.datasets[i]) > 0
          /\ Len(c.datasets[i]) = c.labels
          /\ \A j \in 1..Len(c.datasets[i]) : IsNumber(c.datasets[i][j])

\* all(v == 0 or v is None for v in all_values), or no value at all
AllZero(c) ==
    \A i \in 1..Len(c.datasets) : \A j \in 1..Len(c.datasets[i]) :
        c.datasets[i][j] = 0 \/ c.datasets[i][j] = Null

\* the forms of the text the model returns for the chart data: no JSON in
\* it, the empty object, a non-empty list, a number, an object whose data
\* is null, an object with a dataset that is a number, an object of the
\* expected form
ReplyShapes ==
    {"unparsable", "empty", "list", "number", "dataNull", "datasetNumber", "object"}

\* a spec whose only dataset has fewer values than there are labels
MismatchSpec ==
    [kind |-> "bar", title |-> TRUE, labels |-> 2, datasets |-> << <<5>> >>]

\* a reply of the model to a chart data prompt: its form and, for an
\* object of the expected form, the spec it holds
Reply(shape, c) == [shape |-> shape, spec |-> c]

ChartReplies ==
    {Reply(sh, WellFormedSpec("bar")) : sh \in ReplyShapes \ {"object"}}
    \cup {Reply("object", WellFormedSpec("bar")), Reply("object", MismatchSpec)}

\* the model returned nothing that parses
NoReply == Reply("unparsable", WellFormedSpec("bar"))

\* the replies considered in a run of main over the outline of three
\* subsections
IsolationChartReplies == {NoReply, Reply("dataNull", WellFormedSpec("bar"))}

\* the replies considered in a run of main over a whole outline
RunChartReplies ==
    {NoReply, Reply("dataNull", WellFormedSpec("bar")),
     Reply("object", WellFormedSpec("bar"))}

\* extract_first_json_block: None when no JSON value can be parsed, else the
\* parsed value, which is falsy when it is the empty object
ExtractFirstJsonBlock(r) ==
    IF r.shape = "unparsable" THEN "None"
    ELSE IF r.shape = "empty" THEN "falsy" ELSE "value"

\* validate_json_chart_data raises TypeError on the parsed value: `in` on a
\* number, `in` on the null data, `in` on the dataset that is a number
ValidateRaises(r) == r.shape \in {"number", "dataNull", "datasetNumber"}

\* validate_json_chart_data on the parsed value, when it does not raise: a
\* list has none of the fields
ValidateReply(r) == r.shape = "object" /\ ValidateChartData(r.spec)

\* writer_flash_chart_data and writer_pro_chart_data on the reply r: None
\* ("none"), the validated chart data ("data"), or the exception of the
\* validation ("raises")
ChartDataOf(r) ==
    IF ExtractFirstJsonBlock(r) # "value" THEN [res |-> "none", spec |-> r.spec]
    ELSE IF ValidateRaises(r) THEN [res |-> "raises", spec |-> r.spec]
    ELSE IF ValidateReply(r) THEN [res |-> "data", spec |-> r.spec]
    ELSE [res |-> "none", spec |-> r.spec]

\* how a reply is named in the records of a run
ReplyKind(r) ==
    IF r.shape # "object" THEN r.shape
    ELSE IF ValidateChartData(r.spec) THEN "valid" ELSE "invalid"

\* writer_pro_chart_data is asked only when writer_flash_chart_data returned
\* nothing: the replies it can give after the reply flash
ProRepliesAfter(flash, replies) ==
    IF ChartDataOf(flash).res = "none" THEN replies ELSE {flash}

\* create_chart_from_description_plotly: whether it returns True, and
\* whether the PNG exists afterwards
Plotly(c, o) ==
    LET accepted ==
            /\ o # "unavailable"
            /\ c.labels > 0 /\ c.datasets # << >>
            /\ (c.kind = "pie" =>
                   (Len(c.datasets[1]) > 0 /\ Len(c.datasets[1]) = c.labels))
            /\ o # "error"
    IN  [ok |-> accepted, png |-> accepted /\ o = "png"]

\* the checks of create_chart_from_description before it draws
DescriptionAccepted(c) ==
    /\ c.labels > 0 /\ c.datasets # << >>
    /\ \A i \in 1..Len(c.datasets) :
          Len(c.datasets[i]) > 0 /\ Len(c.datasets[i]) = c.labels
    /\ ~AllZero(c)

\* one call of a rendering backend and whether it reported success
Try(backend, ok) == [by |-> backend, ok |-> ok]

\* a variant of create_chart_from_description that draws with matplotlib
\* before it tries plotly
CreateChart_StaticFirst(c, env) ==
    IF ~DescriptionAccepted(c)
    THEN [tried |-> << >>, ok |-> FALSE, png |-> FALSE]
    ELSE IF env.static = "png"
    THEN [tried |-> <<Try("static", TRUE)>>, ok |-> TRUE, png |-> TRUE]
    ELSE [tried |-> <<Try("static", FALSE),
                      Try("interactive", Plotly(c, env.plotly2).ok)>>,
          ok |-> Plotly(c, env.plotly2).ok, png |-> Plotly(c, env.plotly2).png]

\* create_chart_from_description on the JSON of c: the backends it called
\* in order, whether it returns True, whether the PNG exists afterwards
CreateChart(c, env) ==
    IF ~DescriptionAccepted(c)
    THEN [tried |-> << >>, ok |-> FALSE, png |-> FALSE]
    ELSE IF Plotly(c, env.plotly2).ok
    THEN [tried |-> <<Try("interactive", TRUE)>>, ok |-> TRUE,
          png |-> Plotly(c, env.plotly2).png]
    ELSE [tried |-> <<Try("interactive", FALSE), Try("static", env.static = "png")>>,
          ok |-> env.static = "png", png |-> env.static = "png"]

\* _generate_fallback_table returns a table: one row per dataset whose
\* values are as many as the labels
FallbackTable(c) ==
    /\ c.labels > 0 /\ c.datasets # << >>
    /\ \E i \in 1..Len(c.datasets) : Len(c.datasets[i]) = c.labels

\* no render made yet
NoRender ==
    [entry |-> "none", spec |-> WellFormedSpec("bar"), valid |-> FALSE,
     tried |-> << >>, out |-> "none", png |-> FALSE]

\* writer_pro_chart(chart_data, ...): validation, the model-authored code,
\* then plotly, then create_chart_from_description; out is "image" when a
\* chart path is returned and "nochart" when None is
WriterProChart(c, env) ==
    IF ~ValidateChartData(c)
    THEN [entry |-> "writer", spec |-> c, valid |-> FALSE, tried |-> << >>,
          out |-> "nochart", png |-> FALSE]
    ELSE LET t0 == IF env.code = "none" THEN << >>
                   ELSE <<Try("code", env.code = "png")>>
             p == Plotly(c, env.plotly1)
             d == CreateChart(c, env)
         IN  IF env.code = "png"
             THEN [entry |-> "writer", spec |-> c, valid |-> TRUE, tried |-> t0,
                   out |-> "image", png |-> TRUE]
             ELSE IF p.ok
             THEN [entry |-> "writer", spec |-> c, valid |-> TRUE,
                   tried |-> Append(t0, Try("interactive", TRUE)), out |-> "image",
                   png |-> p.png]
             ELSE [entry |-> "writer", spec |-> c, valid |-> TRUE,
                   tried |-> Append(t0, Try("interactive", FALSE)) \o d.tried,
                   out |-> IF d.ok THEN "image" ELSE "nochart", png |-> d.png]

\* embed_chart_in_markdown on a text holding the JSON of c in a code block:
\* the block is replaced by the image, by the fallback table, or is marked
\* as failed
EmbedChart(c, env) ==
    LET d == CreateChart(c, env)
    IN  [entry |-> "embed", spec |-> c, valid |-> DescriptionAccepted(c),
         tried |-> d.tried,
         out |-> IF d.ok /\ d.png THEN "image"
                 ELSE IF FallbackTable(c) THEN "table" ELSE "marked",
         png |-> d.png]

\* writer_pro_chart is called with the chart spec
RenderForUnit(env) ==
    /\ ppc = "render"
    /\ rend.entry = "none"
    /\ rend' = WriterProChart(rend.spec, env)
    /\ UNCHANGED <<searchVars, mainVars, pureVars, auxVars>>

\* embed_chart_in_markdown is called on a text that holds the chart spec
RenderEmbedded(env) ==
    /\ ppc = "render"
    /\ rend.entry = "none"
    /\ rend' = EmbedChart(rend.spec, env)
    /\ UNCHANGED <<searchVars, mainVars, pureVars, auxVars>>

\* ---------------------------------------------------------- quality score

\* what evaluate_content_quality measures of a text. len: the class of
\* len(content) (below 300, below 800, below 1200, more); h3, h4: how many
\* level-3 ("### ") and level-4 ("#### ") header lines it has; longPara: the mean
\* paragraph is above 400 characters; data: the class of the digit ratio
\* (below 2%, below 3%, more); cited: "[" and "]" or "http" occur; table: two
\* table lines at least; chart: a json chart block occurs; prof: the class
\* of the ratio of professional terms (below 0.5, below 1.0, more); logic:
\* a logic connector occurs
Texts ==
    [len : {"short", "thin", "medium", "full"}, h3 : 0..2, h4 : 0..1, longPara : BOOLEAN,
     data : {"low", "mid", "high"}, cited : BOOLEAN, table : BOOLEAN,
     chart : BOOLEAN, prof : {"low", "mid", "high"}, logic : BOOLEAN]

\* total_headers: content.count("###") + content.count("####"). A level-4
\* header line holds "####" once and "###" once, a level-3 header line
\* holds "###" once
TotalHeaders(t) == (t.h3 + t.h4) + t.h4

\* the deductions evaluate_content_quality applies to the text, in tenths
\* of a point, in the order of the code
Deductions(t) ==
    << CASE t.len = "thin" -> 20 [] t.len = "medium" -> 5 [] OTHER -> 0,
       CASE TotalHeaders(t) = 0 -> 25 [] TotalHeaders(t) = 1 -> 10 [] OTHER -> 0,
       IF t.longPara THEN 8 ELSE 0,
       CASE t.data = "low" -> 25 [] t.data = "mid" -> 5 [] OTHER -> 0,
       IF ~t.cited THEN 10 ELSE 0,
       CASE ~t.table /\ ~t.chart -> 30 [] ~t.chart -> 15 [] OTHER -> 0,
       CASE t.prof = "low" -> 15 [] t.prof = "mid" -> 3 [] OTHER -> 0,
       IF ~t.logic THEN 10 ELSE 0 >>

RECURSIVE SumSeq(_)
SumSeq(q) == IF q = << >> THEN 0 ELSE Head(q) + SumSeq(Tail(q))

\* a variant of evaluate_content_quality that returns the score without
\* max(0.0, score)
EvaluateContentQuality_NoFloor(t) ==
    IF t.len = "short" THEN 0 ELSE 100 - SumSeq(Deductions(t))

\* evaluate_content_quality(content, ...)[0], in tenths of a point
EvaluateContentQuality(t) ==
    IF t.len = "short" THEN 0
    ELSE IF 100 - SumSeq(Deductions(t)) > 0 THEN 100 - SumSeq(Deductions(t)) ELSE 0

\* mutation: a hint is given only where an issue is reported
ImprovementHints_IssuesOnly(t) ==
    IF t.len = "short" THEN <<"atLeast300">>
    ELSE (IF t.len = "thin" THEN <<"expand">>
          ELSE IF t.len = "medium" THEN <<"addCases">> ELSE << >>)
      \o (IF TotalHeaders(t) = 0 THEN <<"addHeaders">>
          ELSE IF TotalHeaders(t) = 1 THEN <<"moreHeaders">> ELSE << >>)
      \o (IF t.longPara THEN <<"splitParagraphs">> ELSE << >>)
      \o (IF t.data = "low" THEN <<"addNumbers">> ELSE << >>)
      \o (IF ~t.cited THEN <<"citeSources">> ELSE << >>)
      \o (IF ~t.table /\ ~t.chart THEN <<"addTableOrChart">> ELSE << >>)
      \o (IF t.prof = "low" THEN <<"addTerms">> ELSE << >>)
      \o (IF ~t.logic THEN <<"addConnectors">> ELSE << >>)

\* evaluate_content_quality(content, ...)[2]: improvement_hints, one
\* appended in every branch that deducts, in the order of the code
ImprovementHints(t) ==
    IF t.len = "short" THEN <<"atLeast300">>
    ELSE (IF t.len = "thin" THEN <<"expand">>
          ELSE IF t.len = "medium" THEN <<"addCases">> ELSE << >>)
      \o (IF TotalHeaders(t) = 0 THEN <<"addHeaders">>
          ELSE IF TotalHeaders(t) = 1 THEN <<"moreHeaders">> ELSE << >>)
      \o (IF t.longPara THEN <<"splitParagraphs">> ELSE << >>)
      \o (IF t.data = "low" THEN <<"addNumbers">>
          ELSE IF t.data = "mid" THEN <<"moreNumbers">> ELSE << >>)
      \o (IF ~t.cited THEN <<"citeSources">> ELSE << >>)
      \o (IF ~t.table /\ ~t.chart THEN <<"addTableOrChart">>
          ELSE IF ~t.chart THEN <<"addChart">> ELSE << >>)
      \o (IF t.prof = "low" THEN <<"addTerms">>
          ELSE IF t.prof = "mid" THEN <<"moreTerms">> ELSE << >>)
      \o (IF ~t.logic THEN <<"addConnectors">> ELSE << >>)

\* no text evaluated
NoQual ==
    [text |-> [len |-> "short", h3 |-> 0, h4 |-> 0, longPara |-> FALSE, data |-> "low",
               cited |-> FALSE, table |-> FALSE, chart |-> FALSE, prof |-> "low",
               logic |-> FALSE],
     done |-> FALSE, score |-> 0, hints |-> << >>]

\* evaluate_content_quality is called on the text
Evaluate ==
    /\ ppc = "quality"
    /\ ~qual.done
    /\ qual' = [qual EXCEPT !.done = TRUE, !.score = EvaluateContentQuality(qual.text),
                            !.hints = ImprovementHints(qual.text)]
    /\ UNCHANGED <<searchVars, mainVars, rend, kb, split, auxVars>>

\* ------------------------------------------------------------- retrieval

\* the words a query can hold
Terms == {"a", "b"}

\* the weight smart_chunk_material gives every chunk (1.0)
CHUNK_WEIGHT == 1

\* the chunks considered: a chunk is the set of the query words its text
\* contains as substrings, and its weight
Chunks == [terms : {{}, {"a"}, Terms}, weight : {CHUNK_WEIGHT}]

\* the queries considered: the empty string, or a text with some words
KbQueries ==
    {[blank |-> TRUE, words |-> {}]}
    \cup {[blank |-> FALSE, words |-> W] : W \in {{}, {"a"}, Terms}}

\* the similarities considered, in hundredths
Sims == {0, 50}

\* what computing the similarities does: it raises, the query vector has
\* no non-zero entry, or it gives a similarity for every chunk
VecOutcomes(n) ==
    {[kind |-> k, sims |-> [i \in 1..n |-> 0]] : k \in {"raises", "degenerate"}}
    \cup {[kind |-> "sims", sims |-> f] : f \in [1..n -> Sims]}

\* the values of top_k considered
TopKs == {2}

\* score * c.get('weight', 1.0) with score the number of query words in the
\* chunk text, in hundredths
KeywordScore(c, q) == Cardinality(q.words \cap c.terms) * c.weight * 100

\* keyword_scores: the chunks with a positive keyword score, in index order
RECURSIVE KeywordPairs(_, _, _)
KeywordPairs(chunks, q, i) ==
    IF i > Len(chunks) THEN << >>
    ELSE (IF KeywordScore(chunks[i], q) > 0
          THEN <<[score |-> KeywordScore(chunks[i], q), idx |-> i]>> ELSE << >>)
         \o KeywordPairs(chunks, q, i + 1)

\* the vector loop: the chunks with a positive similarity, in index order,
\* each with sim + keyword_scores.get(idx, 0) * 0.1
RECURSIVE VectorPairs(_, _, _, _)
VectorPairs(chunks, q, sims, i) ==
    IF i > Len(chunks) THEN << >>
    ELSE (IF sims[i] > 0
          THEN <<[score |-> sims[i] + KeywordScore(chunks[i], q) \div 10, idx |-> i]>>
          ELSE << >>)
         \o VectorPairs(chunks, q, sims, i + 1)

\* a variant of the insertion that puts an entry before the entries of
\* equal score
InsertDesc_Unstable(p, sorted) ==
    LET k == Cardinality({j \in 1..Len(sorted) : sorted[j].score > p.score})
    IN  SubSeq(sorted, 1, k) \o <<p>> \o SubSeq(sorted, k + 1, Len(sorted))

\* one entry put into a list sorted by descending score: after every entry
\* of greater or equal score
InsertDesc(p, sorted) ==
    LET k == Cardinality({j \in 1..Len(sorted) : sorted[j].score >= p.score})
    IN  SubSeq(sorted, 1, k) \o <<p>> \o SubSeq(sorted, k + 1, Len(sorted))

\* combined.sort(key=lambda x: x[0], reverse=True): Python's sort is stable,
\* also in reverse
RECURSIVE SortDesc(_, _)
SortDesc(pairs, sorted) ==
    IF pairs = << >> THEN sorted
    ELSE SortDesc(Tail(pairs), InsertDesc(Head(pairs), sorted))

\* combined[:top_k]
TopOf(pairs, k) == SubSeq(pairs, 1, IF Len(pairs) < k THEN Len(pairs) ELSE k)

\* a variant of retrieve in which the fallback to the keyword scores is
\* taken only when the vector path was not entered
CombinedPairs_NoFallback(m, q, v) ==
    IF m.useTfidf /\ m.index
    THEN (IF v.kind = "sims" THEN VectorPairs(m.chunks, q, v.sims, 1) ELSE << >>)
    ELSE KeywordPairs(m.chunks, q, 1)

\* the list `combined` of retrieve before it is sorted: the vector pairs
\* when the index is in use and gave any, else the keyword pairs
CombinedPairs(m, q, v) ==
    LET vec == IF m.useTfidf /\ m.index /\ v.kind = "sims"
               THEN VectorPairs(m.chunks, q, v.sims, 1) ELSE << >>
    IN  IF vec # << >> THEN vec ELSE KeywordPairs(m.chunks, q, 1)

\* a variant of the except branch of retrieve that leaves use_tfidf set
IndexAfter_KeepsFlag(m, v) == [useTfidf |-> m.useTfidf, index |-> m.index]

\* use_tfidf and the index after the vector path: the except branch clears
\* both
IndexAfter(m, v) ==
    IF m.useTfidf /\ m.index /\ v.kind = "raises"
    THEN [useTfidf |-> FALSE, index |-> FALSE]
    ELSE [useTfidf |-> m.useTfidf, index |-> m.index]

\* a MaterialManager after construction: no retrieve made
NewManager(chunks, useTfidf, index) ==
    [chunks |-> chunks, useTfidf |-> useTfidf, index |-> index, calls |-> 0,
     query |-> [blank |-> TRUE, words |-> {}], vec |-> "none", topK |-> 0,
     sims |-> << >>, res |-> << >>, raisedAt |-> 0]

\* no MaterialManager is studied
NoManager == NewManager(<< >>, FALSE, FALSE)

\* MaterialManager.retrieve(q, k) while computing the similarities does v:
\* the entries of the evidence block in order (score and chunk index), and
\* the manager afterwards. vec records what the vector path did in this
\* call, raisedAt the first call in which computing the similarities raised
RetrieveIn(m, q, v, k) ==
    LET early == m.chunks = << >> \/ (q.words = {} /\ q.blank)
        entered == ~early /\ m.useTfidf /\ m.index
        after == IF early THEN [useTfidf |-> m.useTfidf, index |-> m.index]
                 ELSE IndexAfter(m, v)
    IN  [m EXCEPT !.useTfidf = after.useTfidf, !.index = after.index,
                  !.calls = m.calls + 1, !.query = q, !.topK = k,
                  !.vec = IF entered THEN v.kind ELSE "none",
                  !.sims = IF entered /\ v.kind = "sims" THEN v.sims ELSE << >>,
                  !.res = IF early THEN << >>
                          ELSE TopOf(SortDesc(CombinedPairs(m, q, v), << >>), k),
                  !.raisedAt = IF entered /\ v.kind = "raises" /\ m.raisedAt = 0
                               THEN m.calls + 1 ELSE m.raisedAt]

\* one call of retrieve on the manager
Retrieve(q, v, k) ==
    /\ ppc = "retrieve"
    /\ kb.calls < MaxCalls
    /\ kb' = RetrieveIn(kb, q, v, k)
    /\ UNCHANGED <<searchVars, mainVars, rend, qual, split, auxVars>>

\* -------------------------------------------------------------- chunking

\* the characters of a text
Chars == {"x", "y"}

\* the texts given to smart_chunk_material
Contents == UNION {[1..n -> Chars] : n \in 0..MaxText}

\* content[a:b] of Python, a and b not negative
Slice(content, a, b) ==
    SubSeq(content, a + 1, IF b < Len(content) THEN b ELSE Len(content))

\* a variant of the legacy split that advances by chunk_size
RECURSIVE LegacySplit_NoOverlap(_, _, _, _)
LegacySplit_NoOverlap(content, i, size, overlap) ==
    IF i >= Len(content) THEN << >>
    ELSE <<Slice(content, i, i + size)>>
         \o LegacySplit_NoOverlap(content, i + size, size, overlap)

\* for i in range(0, len(content), chunk_size - chunk_overlap):
\*     seg = content[i:i+chunk_size]
\* from position i on: the texts of the chunks, in order
RECURSIVE LegacySplit(_, _, _, _)
LegacySplit(content, i, size, overlap) ==
    IF i >= Len(content) THEN << >>
    ELSE <<Slice(content, i, i + size)>>
         \o LegacySplit(content, i + (size - overlap), size, overlap)

\* smart_chunk_material(content, ...) without LangChain: the texts of the
\* chunks; no chunk for an empty text
SmartChunkMaterial(content, size, overlap) ==
    IF content = << >> THEN << >> ELSE LegacySplit(content, 0, size, overlap)

\* nothing given to smart_chunk_material
NoSplit == [content |-> << >>, size |-> 1, overlap |-> 0, chunks |-> << >>, done |-> FALSE]

\* smart_chunk_material is called on the text
SmartChunk ==
    /\ ppc = "chunk"
    /\ ~split.done
    /\ split' = [split EXCEPT !.done = TRUE,
                              !.chunks = SmartChunkMaterial(split.content, split.size,
                                                            split.overlap)]
    /\ UNCHANGED <<searchVars, mainVars, rend, qual, kb, auxVars>>

\* ------------------------------------------------------ MaterialManager.load

\* the files os.walk can find, hidden or not, with what reading them gives:
\* "text", a text that smart_chunk_material splits into n chunks (one or
\* two); "blank", nothing or white space only (an empty file, an extension
\* no branch reads, a .doc that yields nothing); "nolib", ImportError of
\* the parser library; "raises", any other exception
LoadFiles ==
    {[hidden |-> TRUE, read |-> "blank", n |-> 0],
     [hidden |-> TRUE, read |-> "text", n |-> 1],
     [hidden |-> FALSE, read |-> "text", n |-> 1],
     [hidden |-> FALSE, read |-> "text", n |-> 2],
     [hidden |-> FALSE, read |-> "blank", n |-> 0],
     [hidden |-> FALSE, read |-> "nolib", n |-> 0],
     [hidden |-> FALSE, read |-> "raises", n |-> 0]}

\* the file lists considered
FileLists == UNION {[1..n -> LoadFiles] : n \in 0..MaxFiles}

\* no load
NoLoader == [pc |-> "off", files |-> << >>, i |-> 1, chunks |-> << >>,
             failed_files |-> << >>, loaded_count |-> 0, indexed |-> FALSE]

\* the chunks of file i, as smart_chunk_material returns them: each is
\* kept as the file it comes from and its position in that file
ChunksOfFile(i, n) == [k \in 1..n |-> [file |-> i, k |-> k]]

\* mutation: an exception raised while a file is read ends the loop
AfterFile_Stops(ld, f) ==
    IF f.hidden THEN [ld EXCEPT !.i = ld.i + 1]
    ELSE CASE f.read = "text" ->
                [ld EXCEPT !.i = ld.i + 1,
                           !.chunks = ld.chunks \o ChunksOfFile(ld.i, f.n),
                           !.loaded_count = ld.loaded_count + 1]
           [] f.read = "raises" ->
                [ld EXCEPT !.i = Len(ld.files) + 1,
                           !.failed_files = Append(ld.failed_files, ld.i)]
           [] OTHER ->
                [ld EXCEPT !.i = ld.i + 1,
                           !.failed_files = Append(ld.failed_files, ld.i)]

\* one iteration of the loop over the files: a hidden file is skipped; a
\* text is chunked and its chunks appended; a file without text, a missing
\* parser library and an exception each append the file to failed_files,
\* and the loop goes on
AfterFile(ld, f) ==
    IF f.hidden THEN [ld EXCEPT !.i = ld.i + 1]
    ELSE IF f.read = "text"
    THEN [ld EXCEPT !.i = ld.i + 1,
                    !.chunks = ld.chunks \o ChunksOfFile(ld.i, f.n),
                    !.loaded_count = ld.loaded_count + 1]
    ELSE [ld EXCEPT !.i = ld.i + 1,
                    !.failed_files = Append(ld.failed_files, ld.i)]

\* load processes the next file
LoadFile ==
    /\ ppc = "load"
    /\ loader.pc = "files"
    /\ loader.i <= Len(loader.files)
    /\ loader' = AfterFile(loader, loader.files[loader.i])
    /\ UNCHANGED <<searchVars, mainVars, rend, pureVars, tier2, peer, rolling>>

\* the files are exhausted: the report is printed and the vector index is
\* built, which needs chunks
LoadEnd ==
    /\ ppc = "load"
    /\ loader.pc = "files"
    /\ loader.i > Len(loader.files)
    /\ \E built \in BOOLEAN :
          loader' = [loader EXCEPT !.pc = "done",
                                   !.indexed = built /\ loader.chunks # << >>]
    /\ UNCHANGED <<searchVars, mainVars, rend, pureVars, tier2, peer, rolling>>

\* ---------------------------------------------------------- test_tier2.py

\* the names bound at the top level of the module 工程重构版V24_4-agent-h
\* once it has been executed
ModuleNames ==
    {"argparse", "subprocess", "time", "requests", "re", "json", "os", "sys",
     "random", "shutil", "glob", "traceback", "hashlib", "base64", "BytesIO",
     "matplotlib", "plt", "fm", "datetime", "MarkdownHeaderTextSplitter",
     "RecursiveCharacterTextSplitter", "Document", "HAS_LANGCHAIN",
     "get_chinese_font", "CHINESE_FONT", "font_name", "Config", "CONF",
     "MaterialManager", "_TAVILY_KEY_WARNED", "search_web", "call_api_robust",
     "validate_json_chart_data", "validate_content_structure",
     "extract_data_points_from_content", "evaluate_content_quality",
     "generate_refinement_prompt", "generate_enhanced_prompt_with_visuals",
     "create_chart_from_description_plotly", "create_chart_from_description",
     "embed_chart_in_markdown", "_generate_fallback_table", "ContextManager",
     "get_model", "call_model", "call_flash", "call_pro", "call_gemini",
     "call_local", "extract_first_json_block", "extract_code_block",
     "call_flash_json", "get_key_constraints", "generate_global_thesis",
     "build_executive_summary", "write_checkpoint", "generate_style_guide",
     "plan_section_flash", "writer_flash_draft", "writer_flash_chart_data",
     "writer_pro_chart_data", "execute_pro_chart_code", "writer_pro_chart",
     "editor_pro_upgrade", "main", "get_reference_doc_path", "convert_md_to_docx"}

\* the attributes test_tier2.py reads from the module, in order
Tier2Imports ==
    <<"expand_query", "compute_relevance_score", "get_cache_manager",
      "get_query_analytics", "SYNONYMS_DICT", "CONF">>

\* the documents of test_relevance_scoring: BM25 score and weight in
\* tenths, length in characters
Docs == [bm25 : {30, 50, 85}, weight : {5, 8, 10}, length : {200, 500, 1000}]

\* the first attribute of the list the module does not have, or "" when
\* it has them all
FirstMissing(names, i) ==
    LET missing == {k \in i..Len(names) : names[k] \notin ModuleNames}
    IN  IF missing = {} THEN ""
        ELSE names[CHOOSE k \in missing : \A j \in missing : k <= j]

\* no run of test_tier2.py
NoTier2 == [pc |-> "off", a |-> [bm25 |-> 0, weight |-> 0, length |-> 0],
            b |-> [bm25 |-> 0, weight |-> 0, length |-> 0],
            missing |-> "", status |-> -1, scored |-> FALSE]

\* test_tier2.py from its start through the try block of its imports: the
\* module is executed and the attributes are read; the first one missing
\* raises AttributeError, which is reported, and the run exits with status 1
\* before any test function is defined
Tier2Import ==
    /\ ppc = "tier2"
    /\ tier2.pc = "start"
    /\ LET m == FirstMissing(Tier2Imports, 1)
       IN  tier2' = IF m = ""
                    THEN [tier2 EXCEPT !.pc = "imported"]
                    ELSE [tier2 EXCEPT !.pc = "exited", !.missing = m, !.status = 1]
    /\ UNCHANGED <<searchVars, mainVars, rend, pureVars, peer, rolling, loader>>

\* -------------------------------------------------------------------- main

\* the unit main is not working on. Besides final_body, quality_score, the
\* chart reference and the re-edit count, a unit carries what was observed of
\* it: the chart data response, the outcome of the render, whether the
\* generation backend returned any text, the stages that ran, the text
\* before the re-edit and what the re-edit returned, the calls of search_web
\* made for the unit so far and, once the forced lookup is made, the
\* backend attempts and the return value of the gated one
NoUnit == [body |-> "", score |-> 0, chart |-> FALSE, rounds |-> 0,
           spec |-> "none", render |-> "none", text |-> FALSE, stages |-> {},
           flash |-> "unasked", pro |-> "unasked", given |-> << >>,
           first |-> "", retry |-> "unasked",
           lookups |-> 0, gated |-> [resps |-> 0, ret |-> "unasked"]]

\* search_query = f"{topic} {sub} 数据 分析 现状"
GatedQuery(sub) == <<"topic", sub, "data", "analysis", "status">>

\* f"{topic} {sub}"
ForcedQuery(sub) == <<"topic", sub>>

\* Python truth value of a search result: "" and None are false
Falsy(r) == r = "" \/ r = NoneVal

\* evaluate_content_quality as the loop uses it: the score of a text, in
\* tenths of a point
\* a text with nothing to deduct
FullText ==
    [len |-> "full", h3 |-> 2, h4 |-> 0, longPara |-> FALSE, data |-> "high",
     cited |-> TRUE, table |-> TRUE, chart |-> TRUE, prof |-> "high", logic |-> TRUE]

\* the texts the generation backend returns, as evaluate_content_quality
\* measures them: the draft has no headers, the first edit has no headers
\* and no json chart block, the second edit has no json chart block, and
\* no text is a short text
TextOf(body) ==
    CASE body = "D" -> [FullText EXCEPT !.h3 = 0]
      [] body = "E1" -> [FullText EXCEPT !.h3 = 0, !.chart = FALSE]
      [] body = "E2" -> [FullText EXCEPT !.chart = FALSE]
      [] OTHER -> [FullText EXCEPT !.len = "short"]

Score(body) == EvaluateContentQuality(TextOf(body))

\* whether the loop sends the evaluated text back to the editor: the score
\* alone decides, CONF.MAX_REFINEMENT_ROUNDS is not read
NeedsRefinement(score) == score < QUALITY_THRESHOLD

\* the chapter, the section and the subsection main is at
Chap == outline[ci]

Sec == Chap.sections[si]

Sub == Sec.subs[ui]

\* t[:n]
Take(t, n) == SubSeq(t, 1, IF Len(t) < n THEN Len(t) ELSE n)

\* .replace(" ", "_").replace("/", "-") on one character
FileChar(ch) == IF ch = " " THEN "_" ELSE IF ch = "/" THEN "-" ELSE ch

\* the name of the section file:
\* f"{chap_title[:2]}_{sec_title[:5]}.md".replace(" ", "_").replace("/", "-")
SecFileName(chapTitle, secTitle) ==
    LET raw == Take(chapTitle, 2) \o <<"_">> \o Take(secTitle, 5) \o <<".md">>
    IN  [i \in 1..Len(raw) |-> FileChar(raw[i])]

\* f"{chap_title} / {sec_title} / {sub}"
UnitPath(chapTitle, secTitle, sub) ==
    chapTitle \o <<" ", "/", " ">> \o secTitle \o <<" ", "/", " ">> \o <<sub>>

\* no section file exists
NoFiles == [n \in {} |-> << >>]

\* open(name, "w") and write(text): the file holds text, the others stay
WriteFile(files, name, text) ==
    [n \in DOMAIN files \cup {name} |-> IF n = name THEN text ELSE files[n]]

\* what an earlier run left in a section file
OldContent == <<[sub |-> "old", kind |-> "text", body |-> "D"]>>

\* a heading line of the book: f"# {chap_title}\n\n", f"## {sec_title}\n\n"
Heading(level, title) == [kind |-> level, title |-> title]

\* the "\n\n" that follows a section file read into the book
BlankLine == [kind |-> "blank", title |-> << >>]

\* the section files a run over outline o writes
SectionFilesOf(o) ==
    UNION {{SecFileName(o[c].title, o[c].sections[s].title) :
               s \in 1..Len(o[c].sections)} : c \in 1..Len(o)}

\* what the generation backend gave a unit: it was not asked, it returned a
\* text (draft or edit), it returned no text, or it returned chart data that
\* validate_json_chart_data cannot walk
GenGave(u) ==
    IF u.stages = {} THEN "unasked"
    ELSE IF u.spec = "malformed" THEN "malformed"
    ELSE IF u.text THEN "text" ELSE "nothing"

\* what is kept of every unit main has left: its path, whether local or
\* web evidence had been found for it, what the generation backend gave,
\* how it ended
Visited(u, evid, end) ==
    [path |-> UnitPath(Chap.title, Sec.title, Sub), evid |-> evid,
     gen |-> GenGave(u), end |-> end]

\* what is kept of the unit main has left last: the same, the chart data
\* response, the outcome of the render, the stages that ran, and whether
\* the placeholder went to sec_content
Ended(u, evid, end) ==
    [path |-> UnitPath(Chap.title, Sec.title, Sub), evid |-> evid,
     gen |-> GenGave(u), spec |-> u.spec, render |-> u.render, chart |-> u.chart,
     flash |-> u.flash, pro |-> u.pro, given |-> u.given,
     first |-> u.first, retry |-> u.retry,
     stages |-> u.stages, end |-> end,
     marked |-> /\ Len(secContent') = Len(secContent) + 1
                /\ secContent'[Len(secContent')].kind = "missing"
                /\ secContent'[Len(secContent')].sub = Sub]

\* no unit left yet
NoEnded ==
    [path |-> << >>, evid |-> FALSE, gen |-> "unasked", spec |-> "none",
     render |-> "none", chart |-> FALSE, flash |-> "unasked", pro |-> "unasked",
     given |-> << >>, first |-> "", retry |-> "unasked", stages |-> {},
     end |-> "none", marked |-> FALSE]

\* main leaves the unit: both records are made
Leave(u, evid, end) ==
    /\ trace' = Append(trace, Visited(u, evid, end))
    /\ ended' = Ended(u, evid, end)

\* local_ctx or web_ctx holds something
EvidenceFound(web) == localCtx > 0 \/ web \notin {"", NoneVal}

\* mutation: a unit that ends as failed is also given to add_section
FailUnit_AlsoAdded(placeholder) ==
    /\ failed' = Append(failed, UnitPath(Chap.title, Sec.title, Sub))
    /\ secContent' = IF placeholder
                     THEN Append(secContent, [sub |-> Sub, kind |-> "missing", body |-> ""])
                     ELSE secContent
    /\ finalized' = Append(finalized, [path |-> UnitPath(Chap.title, Sec.title, Sub),
                                       sub |-> Sub, body |-> "", score |-> 0,
                                       chart |-> FALSE, rounds |-> 0])
    /\ unit' = NoUnit
    /\ localCtx' = 0
    /\ ui' = ui + 1
    /\ ppc' = "unit"
    /\ UNCHANGED anyContent

\* the unit ends as failed: its path goes to failed_sections
FailUnit(placeholder) ==
    /\ failed' = Append(failed, UnitPath(Chap.title, Sec.title, Sub))
    /\ secContent' = IF placeholder
                     THEN Append(secContent, [sub |-> Sub, kind |-> "missing", body |-> ""])
                     ELSE secContent
    /\ unit' = NoUnit
    /\ localCtx' = 0
    /\ ui' = ui + 1
    /\ ppc' = "unit"
    /\ UNCHANGED <<finalized, anyContent>>

\* the unit's text is accepted: sec_content, any_content, context_mgr.add_section
AcceptUnit(u) ==
    /\ secContent' = Append(secContent, [sub |-> Sub, kind |-> "text", body |-> u.body])
    /\ finalized' = Append(finalized, [path |-> UnitPath(Chap.title, Sec.title, Sub),
                                       sub |-> Sub, body |-> u.body,
                                       score |-> u.score, chart |-> u.chart,
                                       rounds |-> u.rounds])
    /\ anyContent' = TRUE
    /\ unit' = NoUnit
    /\ localCtx' = 0
    /\ ui' = ui + 1
    /\ ppc' = "unit"
    /\ UNCHANGED failed

\* mutation: the draft is asked for whether or not evidence was found
EvidenceCheck_AlwaysGenerate(web) ==
    /\ ppc' = "generate"
    /\ UNCHANGED <<ui, localCtx, unit, secContent, failed, finalized, trace, ended, anyContent>>

\* mutation: a unit without evidence ends the loop over the subsections
EvidenceCheck_Break(web) ==
    IF localCtx = 0 /\ Falsy(web)
    THEN /\ failed' = Append(failed, UnitPath(Chap.title, Sec.title, Sub))
         /\ secContent' = Append(secContent, [sub |-> Sub, kind |-> "missing", body |-> ""])
         /\ unit' = NoUnit
         /\ localCtx' = 0
         /\ ui' = Len(Sec.subs) + 1
         /\ ppc' = "unit"
         /\ UNCHANGED <<finalized, anyContent>>
         /\ Leave(NoUnit, EvidenceFound(web), "failed")
    ELSE /\ ppc' = "generate"
         /\ UNCHANGED <<ui, localCtx, unit, secContent, failed, finalized, trace, ended, anyContent>>

\* with the web evidence decided: no evidence at all fails the unit with
\* the placeholder, otherwise the generation backend is asked for the draft
EvidenceCheck(web) ==
    IF localCtx = 0 /\ Falsy(web)
    THEN /\ FailUnit(TRUE)
         /\ Leave(NoUnit, EvidenceFound(web), "failed")
    ELSE /\ ppc' = "generate"
         /\ UNCHANGED <<ui, localCtx, unit, secContent, failed, finalized, trace, ended, anyContent>>

\* the head of the chapter loop; after the last chapter the book is bound and
\* failed_sections is printed
BeginChapter ==
    /\ ppc = "chapter"
    /\ IF ci > Len(outline)
       THEN /\ ppc' = "done"
            /\ UNCHANGED <<si, fullBook>>
       ELSE /\ ppc' = "section"
            /\ si' = 1
            /\ fullBook' = Append(fullBook, Heading("#", Chap.title))
    /\ UNCHANGED <<maxRounds, outline, ci, ui, secFiles, localCtx, unit, secContent,
                   failed, finalized, trace, ended, anyContent>>
    /\ UNCHANGED <<searchVars, libVars>>

\* the sections of the chapter are exhausted: write_checkpoint, next chapter
EndChapter ==
    /\ ppc = "section"
    /\ si > Len(Chap.sections)
    /\ ci' = ci + 1
    /\ ppc' = "chapter"
    /\ UNCHANGED <<maxRounds, outline, si, ui, secFiles, fullBook, localCtx, unit, secContent,
                   failed, finalized, trace, ended, anyContent>>
    /\ UNCHANGED <<searchVars, libVars>>

\* context_mgr.generated_sections.get(last_chapter_title) holds something:
\* a unit of the previous chapter has been accepted in this run
PrevChapterGenerated ==
    /\ ci > 1
    /\ \E k \in 1..Len(finalized), s \in 1..Len(outline[ci - 1].sections) :
          finalized[k].path = UnitPath(outline[ci - 1].title,
                                       outline[ci - 1].sections[s].title,
                                       finalized[k].sub)

\* build_executive_summary: the global thesis when there is no previous
\* chapter or nothing of it was generated, else call_pro's reply to the
\* summary prompt, or the global thesis when the reply is empty
BuildExecutiveSummary(reply) ==
    IF ~PrevChapterGenerated THEN GlobalThesis
    ELSE IF Falsy(reply) THEN GlobalThesis ELSE reply

\* no summary set yet
NoRolling == [summary |-> "", log |-> << >>]

\* mutation: no section file is ever found
SectionExists_Never(name, files) == FALSE

\* os.path.exists(sec_file)
SectionExists(name, files) == name \in DOMAIN files

\* the head of the section loop: the heading goes to the book, the summary
\* is built and set, the section is planned from it, and a section whose
\* file exists is skipped: the file is read into the book
BeginSection(reply) ==
    /\ ppc = "section"
    /\ si <= Len(Chap.sections)
    /\ LET v == BuildExecutiveSummary(reply)
       IN  rolling' = [summary |-> v,
                       log |-> Append(rolling.log, [chap |-> ci, sec |-> si, value |-> v])]
    /\ IF SectionExists(SecFileName(Chap.title, Sec.title), secFiles)
       THEN /\ fullBook' = Append(fullBook, Heading("##", Sec.title))
                               \o secFiles[SecFileName(Chap.title, Sec.title)]
                               \o <<BlankLine>>
            /\ si' = si + 1
            /\ UNCHANGED <<ppc, ui, secContent>>
       ELSE /\ fullBook' = Append(fullBook, Heading("##", Sec.title))
            /\ ppc' = "unit"
            /\ ui' = 1
            /\ secContent' = << >>
            /\ UNCHANGED si
    /\ UNCHANGED <<maxRounds, outline, ci, secFiles, localCtx, unit, failed, finalized,
                   trace, ended, anyContent>>
    /\ UNCHANGED <<searchVars, rend, pureVars, tier2, peer, loader>>

\* the subsections of the section are exhausted: the section file is
\* written when the section has content
EndSection ==
    /\ ppc = "unit"
    /\ ui > Len(Sec.subs)
    /\ secFiles' = IF secContent # << >>
                   THEN WriteFile(secFiles, SecFileName(Chap.title, Sec.title), secContent)
                   ELSE secFiles
    /\ fullBook' = fullBook \o secContent
    /\ si' = si + 1
    /\ ppc' = "section"
    /\ UNCHANGED <<maxRounds, outline, ci, ui, localCtx, unit, secContent, failed,
                   finalized, trace, ended, anyContent>>
    /\ UNCHANGED <<searchVars, libVars>>

\* mutation: the forced lookup follows whenever local evidence is short
NeedsForced_Always(web, len) == len < SHORT_LOCAL_CTX

\* `not web_ctx and (not local_ctx or len(local_ctx) < 500)`
NeedsForced(web, len) == Falsy(web) /\ len < SHORT_LOCAL_CTX

\* a unit begins: local retrieval, then the gated web lookup
BeginUnit(len) ==
    /\ ppc = "unit"
    /\ pc = "idle"
    /\ ui <= Len(Sec.subs)
    /\ localCtx' = len
    /\ SearchEntry(GatedQuery(Sub), FALSE, DEFAULT_MAX_RETRIES)
    /\ unit' = [NoUnit EXCEPT !.lookups = 1]
    /\ ppc' = "gated"
    /\ UNCHANGED <<keyPresent, store, now, ticks, mark, libVars>>
    /\ UNCHANGED <<maxRounds, outline, ci, si, ui, secFiles, fullBook, secContent, failed,
                   finalized, trace, ended, anyContent>>

\* the gated lookup has returned: without a result and without enough local
\* evidence the forced lookup follows
AfterGated ==
    /\ ppc = "gated"
    /\ pc = "idle"
    /\ IF NeedsForced(last.ret, localCtx)
       THEN /\ SearchEntry(ForcedQuery(Sub), TRUE, DEFAULT_MAX_RETRIES)
            /\ unit' = [unit EXCEPT !.lookups = unit.lookups + 1,
                                    !.gated = [resps |-> Len(last.resps), ret |-> last.ret]]
            /\ ppc' = "forced"
            /\ UNCHANGED <<ui, localCtx, secContent, failed, finalized, trace, ended, anyContent>>
       ELSE /\ EvidenceCheck(last.ret)
            /\ UNCHANGED <<warned, warnCount, pc, call, last>>
    /\ UNCHANGED <<keyPresent, store, now, ticks, mark, libVars>>
    /\ UNCHANGED <<maxRounds, outline, ci, si, secFiles, fullBook>>

\* the forced lookup has returned
AfterForced ==
    /\ ppc = "forced"
    /\ pc = "idle"
    /\ EvidenceCheck(last.ret)
    /\ UNCHANGED <<searchVars, libVars>>
    /\ UNCHANGED <<maxRounds, outline, ci, si, secFiles, fullBook>>

\* mutation: a chart that could not be rendered fails the unit
RenderAborts_Always(rendered, chart) == rendered /\ ~chart

\* whether the outcome of the render ends the unit: it never does, the loop
\* goes on to the editor with or without a chart path
RenderAborts(rendered, chart) == FALSE

\* a variant of main that calls writer_pro_chart whatever the chart data
\* functions returned
Renders_Always(data) == TRUE

\* `if chart_data:` in main: writer_pro_chart is called only with chart data
Renders(data) == data.res = "data"

\* draft, chart data, chart, first edit and first evaluation of the unit.
\* draft and edited are what the generation backend returns for the text,
\* flash and pro what it returns to writer_flash_chart_data and to
\* writer_pro_chart_data, env how the rendering backends behave. Chart data
\* that validate_json_chart_data cannot walk raises out of main.
Generate(draft, flash, pro, env, edited) ==
    /\ ppc = "generate"
    /\ LET f == ChartDataOf(flash)
           q == ChartDataOf(pro)
           asked == f.res = "none"
           raised == f.res = "raises" \/ (asked /\ q.res = "raises")
           data == IF asked THEN q ELSE f
           chartResp == IF raised THEN "malformed"
                        ELSE IF data.res = "data" THEN "valid" ELSE "none"
           rendered == ~raised /\ Renders(data)
           chart == rendered /\ WriterProChart(data.spec, env).out = "image"
           body == IF edited # "" THEN edited ELSE draft
           early == {"draft", "spec"} \cup (IF rendered THEN {"render"} ELSE {})
           g == [NoUnit EXCEPT !.spec = chartResp,
                               !.render = IF ~rendered THEN "none"
                                          ELSE IF chart THEN "ok" ELSE "failed",
                               !.chart = chart,
                               !.flash = ReplyKind(flash),
                               !.pro = IF asked THEN ReplyKind(pro) ELSE "unasked",
                               !.given = IF rendered THEN <<data.spec>> ELSE << >>,
                               !.text = (draft # "" \/ edited # "")]
           u == [g EXCEPT !.body = body, !.score = Score(body),
                          !.stages = early \cup {"edit", "score"}]
       IN  IF chartResp = "malformed"
           THEN /\ ppc' = "crashed"
                /\ UNCHANGED <<ui, localCtx, unit, secContent, failed, finalized, anyContent>>
                /\ Leave([g EXCEPT !.stages = {"draft", "spec"}],
                                                EvidenceFound(last.ret), "crashed")
           ELSE IF body = "" \/ RenderAborts(rendered, chart)
           THEN /\ FailUnit(FALSE)
                /\ Leave([g EXCEPT !.stages = early \cup {"edit"}],
                                                EvidenceFound(last.ret), "failed")
           ELSE IF NeedsRefinement(u.score)
           THEN /\ unit' = u
                /\ ppc' = "refine"
                /\ UNCHANGED <<ui, localCtx, secContent, failed, finalized, trace, ended, anyContent>>
           ELSE /\ AcceptUnit(u)
                /\ Leave(u, EvidenceFound(last.ret), "finalized")
    /\ UNCHANGED <<maxRounds, outline, ci, si, secFiles, fullBook>>
    /\ UNCHANGED <<searchVars, libVars>>

\* mutation: the re-edited text replaces the text only when it scores higher
Refined_KeepBest(u, retry) ==
    IF retry # "" /\ Score(retry) > u.score
    THEN [u EXCEPT !.body = retry, !.score = Score(retry), !.rounds = u.rounds + 1,
                   !.first = u.body, !.retry = retry]
    ELSE [u EXCEPT !.rounds = u.rounds + 1, !.first = u.body, !.retry = retry]

\* the unit after the re-edit: a retry_body that is not empty becomes
\* final_body and is evaluated, otherwise text and score stay
Refined(u, retry) ==
    IF retry # ""
    THEN [u EXCEPT !.body = retry, !.score = Score(retry), !.rounds = u.rounds + 1,
                   !.first = u.body, !.retry = retry]
    ELSE [u EXCEPT !.rounds = u.rounds + 1, !.first = u.body, !.retry = retry]

\* the score was below the threshold: one more pass of the editor over the
\* text, a second evaluation when it returned something, then the text is
\* accepted
Refine(retry) ==
    /\ ppc = "refine"
    /\ LET u == Refined(unit, retry)
       IN  /\ AcceptUnit(u)
           /\ Leave(u, EvidenceFound(last.ret), "finalized")
    /\ UNCHANGED <<maxRounds, outline, ci, si, secFiles, fullBook>>
    /\ UNCHANGED <<searchVars, libVars>>

\* ---------------------------------------------------------- specifications

\* no function is studied on its own
InitPure == qual = NoQual /\ kb = NoManager /\ split = NoSplit

\* no second process, no test run, no summary set yet
InitAux ==
    tier2 = NoTier2 /\ peer = NoPeer /\ rolling = NoRolling /\ loader = NoLoader

InitSearch ==
    /\ keyPresent \in BOOLEAN
    /\ warned = FALSE
    /\ warnCount = 0
    /\ store = {}
    /\ now = 0
    /\ ticks = 0
    /\ pc = "idle"
    /\ call = NoCall
    /\ last = NoObs
    /\ mark = NoMark

InitMain ==
    /\ ci = 1
    /\ si = 1
    /\ ui = 1
    /\ localCtx = 0
    /\ unit = NoUnit
    /\ fullBook = <<Heading("#", <<"t", "i", "t", "l", "e">>)>>
    /\ secContent = << >>
    /\ failed = << >>
    /\ finalized = << >>
    /\ trace = << >>
    /\ ended = NoEnded
    /\ anyContent = FALSE

\* search_web on its own, called by an arbitrary caller
Init ==
    /\ InitSearch
    /\ InitMain
    /\ InitAux
    /\ rend = NoRender
    /\ InitPure
    /\ outline = OutlineA
    /\ secFiles = NoFiles
    /\ maxRounds = MAX_REFINEMENT_ROUNDS
    /\ ppc = "off"

Next ==
    \/ \E q \in Queries, force \in BOOLEAN, n \in 1..MaxRetries : Lookup(q, force, n)
    \/ \E resp \in Responses, combined \in Combined, w \in WriteOutcomes :
          Attempt(resp, combined, w)
    \/ Tick
    \/ \E k \in BOOLEAN : Restart(k)

vars == <<searchVars, mainVars, libVars>>

Spec == Init /\ [][Next]_vars

\* search_web on its own, with an observer that compares lookups
NextPairs == Next \/ Mark

SpecPairs == Init /\ [][NextPairs]_vars

\* a run of main over an outline. The run is short against the TTL, so the
\* clock does not advance in it, and no query is looked up twice. The output
\* directory is new, or holds one section file of an earlier run; the cache
\* directory can be written.
InitPipeline ==
    /\ InitSearch
    /\ InitMain
    /\ InitAux
    /\ rend = NoRender
    /\ InitPure
    /\ outline \in Outlines
    /\ secFiles \in {NoFiles} \cup {WriteFile(NoFiles, f, OldContent) : f \in SectionFilesOf(outline)}
    /\ maxRounds \in RoundCaps
    /\ ppc = "chapter"

NextPipeline ==
    \/ BeginChapter
    \/ EndChapter
    \/ \E reply \in RunSummaries : BeginSection(reply)
    \/ EndSection
    \/ \E len \in LocalCtxLens : BeginUnit(len)
    \/ AfterGated
    \/ AfterForced
    \/ \E draft \in Drafts, flash \in RunChartReplies, env \in RunRenderEnvs, edited \in Edits :
          \E pro \in ProRepliesAfter(flash, {NoReply}) :
              Generate(draft, flash, pro, env, edited)
    \/ \E retry \in Edits : Refine(retry)
    \/ \E resp \in Responses, combined \in RunAnswers, w \in RunWriteOutcomes :
          Attempt(resp, combined, w)

SpecPipeline == InitPipeline /\ [][NextPipeline]_vars

\* the same run, never halted while a step of it is possible
SpecPipelineLive == SpecPipeline /\ WF_vars(NextPipeline)

\* a run of main over the outline of three subsections, in a new output
\* directory, with the default configuration, a cache that can be written
\* and a generation backend that returns no valid chart data
InitIsolation ==
    /\ InitSearch
    /\ InitMain
    /\ InitAux
    /\ rend = NoRender
    /\ InitPure
    /\ outline = OutlineC
    /\ secFiles = NoFiles
    /\ maxRounds = MAX_REFINEMENT_ROUNDS
    /\ ppc = "chapter"

NextIsolation ==
    \/ BeginChapter
    \/ EndChapter
    \/ \E reply \in RunSummaries : BeginSection(reply)
    \/ EndSection
    \/ \E len \in LocalCtxLens : BeginUnit(len)
    \/ AfterGated
    \/ AfterForced
    \/ \E draft \in Drafts, flash \in IsolationChartReplies, env \in RunRenderEnvs,
          edited \in Edits :
          \E pro \in ProRepliesAfter(flash, {NoReply}) :
              Generate(draft, flash, pro, env, edited)
    \/ \E retry \in Edits : Refine(retry)
    \/ \E resp \in Responses, combined \in RunAnswers : Attempt(resp, combined, "ok")

SpecIsolation == InitIsolation /\ [][NextIsolation]_vars

\* a run of main over the outline with one subsection, in a new output
\* directory, with the default configuration and a cache that can be
\* written, under every reply to the two chart data prompts
InitExtract ==
    /\ InitSearch
    /\ InitMain
    /\ InitAux
    /\ rend = NoRender
    /\ InitPure
    /\ outline = OutlineB
    /\ secFiles = NoFiles
    /\ maxRounds = MAX_REFINEMENT_ROUNDS
    /\ ppc = "chapter"

NextExtract ==
    \/ BeginChapter
    \/ EndChapter
    \/ \E reply \in RunSummaries : BeginSection(reply)
    \/ EndSection
    \/ \E len \in LocalCtxLens : BeginUnit(len)
    \/ AfterGated
    \/ AfterForced
    \/ \E draft \in Drafts, flash \in ChartReplies, env \in RunRenderEnvs, edited \in Edits :
          \E pro \in ProRepliesAfter(flash, ChartReplies) :
              Generate(draft, flash, pro, env, edited)
    \/ \E retry \in Edits : Refine(retry)
    \/ \E resp \in Responses, combined \in RunAnswers : Attempt(resp, combined, "ok")

SpecExtract == InitExtract /\ [][NextExtract]_vars

\* evaluate_content_quality on its own: a text is given, and evaluated
InitQuality ==
    /\ InitSearch
    /\ InitMain
    /\ InitAux
    /\ rend = NoRender
    /\ qual \in {[NoQual EXCEPT !.text = t] : t \in Texts}
    /\ kb = NoManager
    /\ split = NoSplit
    /\ outline = OutlineA
    /\ secFiles = NoFiles
    /\ maxRounds = MAX_REFINEMENT_ROUNDS
    /\ ppc = "quality"

NextQuality == Evaluate

SpecQuality == InitQuality /\ [][NextQuality]_vars

\* smart_chunk_material on its own, without LangChain: a text, a chunk
\* size and a smaller overlap are given, and the text is chunked
InitChunking ==
    /\ InitSearch
    /\ InitMain
    /\ InitAux
    /\ rend = NoRender
    /\ qual = NoQual
    /\ kb = NoManager
    /\ split \in {[NoSplit EXCEPT !.content = c, !.size = n, !.overlap = o] :
                     c \in Contents, n \in 1..MaxChunkSize, o \in 0..(MaxChunkSize - 1)}
    /\ split.overlap < split.size
    /\ outline = OutlineA
    /\ secFiles = NoFiles
    /\ maxRounds = MAX_REFINEMENT_ROUNDS
    /\ ppc = "chunk"

NextChunking == SmartChunk

SpecChunking == InitChunking /\ [][NextChunking]_vars

\* the chunk lists considered
ChunkLists == UNION {[1..n -> Chunks] : n \in 0..MaxChunks}

\* the MaterialManagers after construction: the index is built when
\* USE_TFIDF_RAG is set, sklearn imports, there are chunks and the fit does
\* not raise; otherwise _build_vector_index clears use_tfidf
Managers ==
    {NewManager(cs, TRUE, TRUE) : cs \in ChunkLists \ {<< >>}}
    \cup {NewManager(cs, FALSE, FALSE) : cs \in ChunkLists}

\* MaterialManager.retrieve on its own: a session of calls on one manager
InitRetrieve ==
    /\ InitSearch
    /\ InitMain
    /\ InitAux
    /\ rend = NoRender
    /\ qual = NoQual
    /\ kb \in Managers
    /\ split = NoSplit
    /\ outline = OutlineA
    /\ secFiles = NoFiles
    /\ maxRounds = MAX_REFINEMENT_ROUNDS
    /\ ppc = "retrieve"

NextRetrieve ==
    \E q \in KbQueries, v \in VecOutcomes(Len(kb.chunks)), k \in TopKs : Retrieve(q, v, k)

SpecRetrieve == InitRetrieve /\ [][NextRetrieve]_vars

\* a run of main over the outline whose second chapter has two sections,
\* in a new output directory, with the default configuration and without a
\* search key, under every reply to the summary prompt
InitBarrier ==
    /\ InitSearch
    /\ ~keyPresent
    /\ InitMain
    /\ InitAux
    /\ rend = NoRender
    /\ InitPure
    /\ outline = OutlineD
    /\ secFiles = NoFiles
    /\ maxRounds = MAX_REFINEMENT_ROUNDS
    /\ ppc = "chapter"

NextBarrier ==
    \/ BeginChapter
    \/ EndChapter
    \/ \E reply \in SummaryReplies : BeginSection(reply)
    \/ EndSection
    \/ \E len \in LocalCtxLens : BeginUnit(len)
    \/ AfterGated
    \/ AfterForced
    \/ \E draft \in Drafts, env \in RunRenderEnvs, edited \in Edits :
          Generate(draft, NoReply, NoReply, env, edited)
    \/ \E retry \in Edits : Refine(retry)

SpecBarrier == InitBarrier /\ [][NextBarrier]_vars

\* search_web in a process that holds the key and finds the record of an
\* earlier process in the cache directory
InitExpiry ==
    /\ keyPresent = TRUE
    /\ warned = FALSE
    /\ warnCount = 0
    /\ store = {OldRecord}
    /\ now = 0
    /\ ticks = 0
    /\ pc = "idle"
    /\ call = NoCall
    /\ last = NoObs
    /\ mark = NoMark
    /\ InitMain
    /\ InitAux
    /\ rend = NoRender
    /\ InitPure
    /\ outline = OutlineA
    /\ secFiles = NoFiles
    /\ maxRounds = MAX_REFINEMENT_ROUNDS
    /\ ppc = "off"

NextExpiry ==
    \/ \E q \in Queries, force \in BOOLEAN, n \in 1..MaxRetries : Lookup(q, force, n)
    \/ \E resp \in Responses, combined \in Combined, w \in WriteOutcomes :
          Attempt(resp, combined, w)
    \/ Tick

SpecExpiry == InitExpiry /\ [][NextExpiry]_vars

\* search_web in a process that holds the key, on the default cache
\* directory, where the smoke test runs too and cache writes can fail
InitForeign ==
    /\ InitSearch
    /\ keyPresent
    /\ InitMain
    /\ InitAux
    /\ rend = NoRender
    /\ InitPure
    /\ outline = OutlineA
    /\ secFiles = NoFiles
    /\ maxRounds = MAX_REFINEMENT_ROUNDS
    /\ ppc = "off"

NextForeign ==
    \/ \E q \in Queries, force \in BOOLEAN, n \in 1..MaxRetries : Lookup(q, force, n)
    \/ \E resp \in Responses, combined \in Combined, w \in WriteOutcomes :
          Attempt(resp, combined, w)
    \/ \E q \in Queries \ {<< >>}, resp \in Responses : SmokeTest(q, resp)

SpecForeign == InitForeign /\ [][NextForeign]_vars

\* MaterialManager.load on its own, over the files of the material folder
InitLoad ==
    /\ InitSearch
    /\ InitMain
    /\ rend = NoRender
    /\ InitPure
    /\ tier2 = NoTier2
    /\ peer = NoPeer
    /\ rolling = NoRolling
    /\ loader \in {[NoLoader EXCEPT !.pc = "files", !.files = fs] : fs \in FileLists}
    /\ outline = OutlineA
    /\ secFiles = NoFiles
    /\ maxRounds = MAX_REFINEMENT_ROUNDS
    /\ ppc = "load"

NextLoad == LoadFile \/ LoadEnd

SpecLoad == InitLoad /\ [][NextLoad]_vars

\* two processes share the cache directory: this one looks queries up, a
\* second one writes the records of its own lookups. Both hold the key,
\* no write fails, and the race is short against the TTL, so the clock
\* does not advance in it
InitRace ==
    /\ InitSearch
    /\ keyPresent
    /\ InitMain
    /\ rend = NoRender
    /\ InitPure
    /\ tier2 = NoTier2
    /\ peer = [NoPeer EXCEPT !.pc = "idle"]
    /\ rolling = NoRolling
    /\ loader = NoLoader
    /\ outline = OutlineA
    /\ secFiles = NoFiles
    /\ maxRounds = MAX_REFINEMENT_ROUNDS
    /\ ppc = "off"

NextRace ==
    \/ \E q \in Queries, force \in BOOLEAN, n \in 1..MaxRetries : Lookup(q, force, n)
    \/ \E resp \in Responses, combined \in Combined : Attempt(resp, combined, "ok")
    \/ \E q \in Queries, combined \in Combined : PeerOpen(q, combined)
    \/ PeerDump

SpecRace == InitRace /\ [][NextRace]_vars

\* a run of test_tier2.py whose relevance test is to compare two documents
InitTier2 ==
    /\ InitSearch
    /\ InitMain
    /\ rend = NoRender
    /\ InitPure
    /\ tier2 \in {[NoTier2 EXCEPT !.pc = "start", !.a = a, !.b = b] : a \in Docs, b \in Docs}
    /\ peer = NoPeer
    /\ rolling = NoRolling
    /\ loader = NoLoader
    /\ outline = OutlineA
    /\ secFiles = NoFiles
    /\ maxRounds = MAX_REFINEMENT_ROUNDS
    /\ ppc = "tier2"

NextTier2 == Tier2Import

SpecTier2 == InitTier2 /\ [][NextTier2]_vars

\* the chart rendering functions on their own: a chart spec is given, and
\* rendered under some behaviour of the rendering backends
InitRender ==
    /\ InitSearch
    /\ keyPresent
    /\ InitMain
    /\ InitAux
    /\ rend \in {[NoRender EXCEPT !.spec = c] : c \in ChartSpecs}
    /\ InitPure
    /\ outline = OutlineA
    /\ secFiles = NoFiles
    /\ maxRounds = MAX_REFINEMENT_ROUNDS
    /\ ppc = "render"

NextRender ==
    \/ \E env \in RenderEnvs : RenderForUnit(env)
    \/ \E env \in RenderEnvs : RenderEmbedded(env)

SpecRender == InitRender /\ [][NextRender]_vars

\* ---------------------------------------------------------------- claims

\* a search_web call returns to its caller in this step
CompletesCall == pc' = "idle" /\ last'.done /\ (pc = "attempt" \/ last' # last)

\* a search_web call for query q is entered in this step
StartsLookup(q) ==
    /\ pc = "idle"
    /\ \/ pc' = "attempt" /\ call'.q = q
       \/ pc' = "idle" /\ last'.done /\ last' # last /\ last'.q = q

\* the call entered in this step
Started == IF pc' = "attempt" THEN call' ELSE last'

\* the unexpired records stored under the fingerprint of q
FreshRecords(q) ==
    {f \in store : f.name = Fingerprint(q) /\ f.kind = "rec" /\ now - f.timestamp < TTL}

\* the call entered in this step returns a stored result at once, with no backend call
ReturnsCached(q) ==
    /\ pc' = "idle"
    /\ last'.resps = << >>
    /\ \E f \in FreshRecords(q) : last'.ret = f.result

\* C1 (as stated): whenever an unexpired cache record exists for the query's
\* fingerprint, the lookup returns exactly the stored result and makes no
\* backend call, whatever force and the trigger terms are.
C1_CachedResultAlways ==
    [][\A q \in Queries :
          (StartsLookup(q) /\ FreshRecords(q) # {}) => ReturnsCached(q)]_vars

\* C1 (amended): the same, for a process in which an API key is configured;
\* without a key search_web returns "" before it looks at the cache.
C1_CachedResultWithKey ==
    [][\A q \in Queries :
          (StartsLookup(q) /\ keyPresent /\ FreshRecords(q) # {}) => ReturnsCached(q)]_vars

\* C1 witness: a forced lookup of a query without trigger term, made half a
\* TTL after the record was written, was served from the cache.
C1_Witness ==
    /\ last.done /\ last.force /\ ~HasTrigger(last.q)
    /\ last.resps = << >> /\ last.ret \in Combined
    /\ \E f \in store : f.kind = "rec" /\ f.query = last.q /\ f.result = last.ret
                        /\ last.t0 - f.timestamp = TickStep

\* two consecutive lookups of one process with the identical query, the
\* second entered less than a TTL after the first was entered
SameQueryPair ==
    /\ CompletesCall
    /\ last.done
    /\ last'.q = last.q
    /\ last'.t0 - last.t0 < TTL

\* the two lookups return the same and issue one backend call together
IdempotentPair ==
    /\ last'.ret = last.ret
    /\ Len(last.resps) + Len(last'.resps) = 1

\* C2 (as stated): two lookups with the identical query within the TTL window
\* return identical results and together issue exactly one backend call.
C2_IdempotentAlways == [][SameQueryPair => IdempotentPair]_vars

\* C2 (amended): a lookup that the backend answered at its first attempt and
\* whose record was written, and any later lookup with the identical query,
\* entered less than a TTL after it with an API key configured, return
\* identical results and together issue exactly one backend call.
C2_IdempotentAfterStore ==
    [][(/\ CompletesCall
        /\ mark.done /\ mark.calls = 1
        /\ last'.q = mark.q
        /\ last'.t0 - mark.t0 < TTL
        /\ ~last'.nokey)
           => (last'.ret = mark.ret /\ mark.calls + Len(last'.resps) = 1)]_vars

\* C2 witness: a lookup without force was served from the cache with what the
\* kept lookup of the same query had returned, after a lookup of another
\* query in between had gone to the backend.
C2_Witness ==
    /\ mark.done /\ last.done /\ last.q = mark.q /\ ~last.force
    /\ last.t0 - mark.t0 = TickStep
    /\ last.resps = << >> /\ last.ret = mark.ret
    /\ \E f \in store : f.kind = "rec" /\ f.query # mark.q /\ f.timestamp > mark.t0

\* every response of the sequence is a transient failure
AllTransient(resps) == \A i \in 1..Len(resps) : resps[i] = "error"

\* C3: a lookup with max_retries = N >= 1 that reaches the backend and whose
\* every attempt fails transiently makes exactly N attempts and returns "".
C3_RetryTermination ==
    (last.done /\ last.n >= 1 /\ last.resps # << >> /\ AllTransient(last.resps))
        => (Len(last.resps) = last.n /\ last.ret = "")

\* C3 witness: a lookup with the largest N gave up after N transient failures.
C3_Witness ==
    /\ last.done /\ last.n = MaxRetries /\ AllTransient(last.resps)
    /\ Len(last.resps) = MaxRetries /\ Len(last.sleeps) = MaxRetries - 1

\* the position of the first 403 among the responses (0: none)
FirstForbidden(resps) ==
    IF \E i \in 1..Len(resps) : resps[i] = "forbidden"
    THEN CHOOSE i \in 1..Len(resps) :
            resps[i] = "forbidden" /\ \A j \in 1..(i - 1) : resps[j] # "forbidden"
    ELSE 0

\* C4: the first attempt answered with 403 ends the lookup: no later attempt,
\* no backoff sleep after it, no cache write, the empty result.
C4_AuthAborts ==
    [][(CompletesCall /\ FirstForbidden(last'.resps) > 0) =>
          /\ Len(last'.resps) = FirstForbidden(last'.resps)
          /\ Len(last'.sleeps) = FirstForbidden(last'.resps) - 1
          /\ last'.wrote = "none"
          /\ store' = store
          /\ last'.ret = ""]_vars

\* C4 witness: a lookup that was refused with 403 after one transient failure.
C4_Witness ==
    /\ last.done /\ last.resps = <<"error", "forbidden">>
    /\ last.sleeps = <<1>> /\ last.ret = ""

\* the completed call met an authentication failure: no key, or a 403
HitAuthError(e) == e.done /\ (e.nokey \/ FirstForbidden(e.resps) > 0)

\* the call that returns in this step was short-circuited without a warning
ShortCircuited ==
    last'.ret = "" /\ last'.resps = << >> /\ last'.warns = 0

\* C5 (as stated): after a lookup of the process has hit an AuthError (key
\* missing or refused), the warning shows at most once and every later call
\* short-circuits to "" without backend call and without warning.
C5_AuthErrorSticky ==
    [][/\ warnCount' <= 1
       /\ (CompletesCall /\ HitAuthError(last)) => ShortCircuited]_vars

\* C5 (amended): once a lookup of the process has found the key missing, the
\* warning shows at most once and every later call of the process, the key
\* still missing, short-circuits to "" without backend call and without warning.
C5_MissingKeySticky ==
    [][/\ warnCount' <= 1
       /\ (CompletesCall /\ last.done /\ last.nokey) => ShortCircuited]_vars

\* C5 witness: the second lookup of a process without key: warned once, no
\* warning this time.
C5_Witness ==
    /\ last.done /\ last.nokey /\ last.warns = 0 /\ warnCount = 1 /\ warned
    /\ last.ret = "" /\ last.resps = << >>

\* the last response of the call was a success
Succeeded(e) == e.resps # << >> /\ e.resps[Len(e.resps)] = "ok"

\* C6: on a successful backend response the record {query, result, timestamp}
\* is in the cache when search_web returns the result; if the write fails,
\* the same result is returned and the cache holds no new record.
C6_WriteThenReturn ==
    [][(CompletesCall /\ pc = "attempt" /\ Succeeded(last')) =>
          /\ last'.ret = last'.answer
          /\ last'.ret \in Combined
          /\ last'.wrote = "ok" =>
                {f \in store' : f.name = Fingerprint(last'.q)} =
                    {[name |-> Fingerprint(last'.q), kind |-> "rec", query |-> last'.q,
                      result |-> last'.ret, timestamp |-> now]}
          /\ last'.wrote # "ok" =>
                {f \in store' : f.kind = "rec"} \subseteq store]_vars

\* C6 witness: a lookup returned the backend's answer although the write
\* failed, and no record of its query is in the cache.
C6_Witness ==
    /\ last.done /\ Succeeded(last) /\ last.wrote = "dumpFail"
    /\ last.ret \in Combined
    /\ \A f \in store : f.kind = "rec" => f.query # last.q

\* C7: the cache holds at most one record per query fingerprint, and a record
\* is stored under the fingerprint of its own query.
C7_OneRecordPerFingerprint ==
    /\ \A f \in store : f.kind = "rec" => f.name = Fingerprint(f.query)
    /\ \A f, g \in store :
          (f.kind = "rec" /\ g.kind = "rec"
             /\ Fingerprint(f.query) = Fingerprint(g.query)) => f = g

\* C7 witness: two records, one of them rewritten after it had expired.
C7_Witness ==
    /\ Cardinality({f \in store : f.kind = "rec"}) = 2
    /\ \E f \in store : f.kind = "rec" /\ f.timestamp >= TTL
    /\ last.done /\ Succeeded(last) /\ last.wrote = "ok" /\ last.t0 >= TTL

\* the lookup entered in this step ends at the gate: "", no backend call,
\* no cache write
GatedOff ==
    /\ pc' = "idle"
    /\ last'.ret = "" /\ last'.resps = << >> /\ last'.wrote = "none"
    /\ store' = store

\* C8 (as stated): without a valid cached record, a non-forced lookup whose
\* query has no trigger term returns "" with no backend call and no cache
\* write, and a forced lookup contacts the backend whatever the terms.
C8_GateAlways ==
    [][\A q \in Queries :
          (StartsLookup(q) /\ FreshRecords(q) = {}) =>
             /\ (~Started.force /\ ~HasTrigger(q)) => GatedOff
             /\ Started.force => pc' = "attempt"]_vars

\* C8 (amended): the forced lookup contacts the backend when it gets as far
\* as the gate: a key is configured, the query is not empty, max_retries >= 1.
C8_Gate ==
    [][\A q \in Queries :
          (StartsLookup(q) /\ FreshRecords(q) = {}) =>
             /\ (~Started.force /\ ~HasTrigger(q)) => GatedOff
             /\ (Started.force /\ keyPresent /\ q # << >> /\ Started.n >= 1)
                   => pc' = "attempt"]_vars

\* C8 witness: a forced lookup of a query without trigger term is in its
\* retry loop, after a non-forced lookup of the same query ended at the gate.
C8_Witness ==
    /\ pc = "attempt" /\ call.force /\ ~HasTrigger(call.q)
    /\ last.done /\ ~last.force /\ last.q = call.q /\ ~last.nokey
    /\ last.ret = "" /\ last.resps = << >>

\* C9: whatever MAX_REFINEMENT_ROUNDS is configured (0 included), the number
\* of re-edit passes made on a unit after its first evaluation never exceeds it.
C9_BoundedRefinement ==
    /\ unit.rounds <= maxRounds
    /\ \A i \in 1..Len(finalized) : finalized[i].rounds <= maxRounds

\* C10: a unit's text is accepted as final only when its score has reached
\* QUALITY_THRESHOLD or its refinement rounds have reached the configured
\* cap; below both, another refinement round follows.
C10_RefineUntilCapOrThreshold ==
    \A i \in 1..Len(finalized) :
        \/ finalized[i].score >= QUALITY_THRESHOLD
        \/ finalized[i].rounds >= maxRounds

\* C11: a unit for which neither the local retrieval nor the web lookups
\* found evidence ends as failed with the "data missing" placeholder, and no
\* stage of the generation backend runs for it (no draft, no chart data, no
\* render, no edit, no scoring); the draft is only asked for with evidence.
C11_NoFabrication ==
    /\ \A i \in 1..Len(trace) :
          ~trace[i].evid => (trace[i].end = "failed" /\ trace[i].gen = "unasked")
    /\ (ended.end # "none" /\ ~ended.evid) =>
          /\ ended.end = "failed" /\ ended.marked /\ ended.stages = {}
          /\ failed # << >> /\ failed[Len(failed)] = ended.path
    /\ ppc \in {"generate", "refine"} => EvidenceFound(last.ret)

\* C11 witness: a unit without local evidence whose gated lookup found nothing
\* and whose forced lookup failed at every attempt has just ended as failed,
\* with the placeholder and without any generation stage.
C11_Witness ==
    /\ ppc = "unit" /\ ended.end = "failed" /\ ~ended.evid
    /\ ended.marked /\ ended.stages = {}
    /\ last.done /\ last.force /\ last.ret = ""
    /\ Len(last.resps) = DEFAULT_MAX_RETRIES

\* the paths of the units in a record sequence
PathsOf(seq) == [i \in 1..Len(seq) |-> seq[i].path]

\* sequence seq without its k-th element
Without(seq, k) == SubSeq(seq, 1, k - 1) \o SubSeq(seq, k + 1, Len(seq))

\* the subsections of the outline of three subsections, as unit paths
LeavesC ==
    [u \in 1..Len(OutlineC[1].sections[1].subs) |->
        UnitPath(OutlineC[1].title, OutlineC[1].sections[1].title,
                 OutlineC[1].sections[1].subs[u])]

\* the k-th unit visited had no evidence, every other unit visited had
\* evidence and got a text from the generation backend
OnlyFailureIs(k) ==
    /\ k \in 1..Len(trace)
    /\ ~trace[k].evid
    /\ \A i \in 1..Len(trace) : i # k => (trace[i].evid /\ trace[i].gen = "text")

\* C12: when the run over a section of three subsections is over and one
\* subsection had neither local nor web evidence while the others had
\* evidence and a generation backend that answered, every other subsection,
\* before and after it, is finalized, and failed_sections holds exactly one
\* entry, the path "chapter / section / subsection" of that subsection.
C12_PartialFailureIsolation ==
    \A k \in 1..Len(LeavesC) :
        (ppc = "done" /\ OnlyFailureIs(k)) =>
            /\ PathsOf(finalized) = Without(LeavesC, k)
            /\ failed = <<LeavesC[k]>>

\* C12 witness: the run is over, the second of the three subsections had no
\* evidence, the first and the third are finalized.
C12_Witness ==
    /\ ppc = "done" /\ OnlyFailureIs(2)
    /\ Len(finalized) = 2 /\ Len(failed) = 1
    /\ failed[1] = <<"A", " ", "1", " ", "/", " ", "I", "n", " ", "/", " ", "s2">>

\* C13: every unit that ends as failed, for lack of evidence or for lack of
\* any text from drafter and editor, has its path appended to failed_sections
\* and the "data missing" placeholder written to the section in its place.
C13_FailedUnitsMarked ==
    ended.end = "failed" =>
        /\ failed # << >> /\ failed[Len(failed)] = ended.path
        /\ ended.marked

RECURSIVE Flatten(_)
\* the concatenation of a sequence of sequences
Flatten(ss) == IF ss = << >> THEN << >> ELSE Head(ss) \o Flatten(Tail(ss))

\* the unit paths of outline o in document order, leaving out the sections
\* whose file is in skip
OutlineLeaves(o, skip) ==
    Flatten([c \in 1..Len(o) |->
        Flatten([s \in 1..Len(o[c].sections) |->
            IF SecFileName(o[c].title, o[c].sections[s].title) \in skip
            THEN << >>
            ELSE [u \in 1..Len(o[c].sections[s].subs) |->
                     UnitPath(o[c].title, o[c].sections[s].title,
                              o[c].sections[s].subs[u])]])])

\* the run is over and has visited, in outline order, every unit of every
\* section that an earlier run had not already written, and each of them
\* ended as finalized or failed
RunComplete ==
    /\ ppc = "done"
    /\ \E skip \in {{}} \cup {{f} : f \in DOMAIN secFiles} :
          PathsOf(trace) = OutlineLeaves(outline, skip)
    /\ \A i \in 1..Len(trace) : trace[i].end \in {"finalized", "failed"}

\* C14: whatever the backends do, the run reaches its end: every unit is
\* visited in outline order and ends as finalized or failed, and the failure
\* list is surfaced; no unit's failure aborts the run.
C14_RunCompletes == <>RunComplete

\* C15: a unit whose valid chart data could not be rendered by any attempt of
\* writer_pro_chart still goes to the editor; when the generation backend
\* gave a text it is scored and finalized without chart reference, and it
\* ends as failed only when neither editor nor drafter returned a text.
C15_RenderFailureDoesNotAbort ==
    (ended.end # "none" /\ ended.spec = "valid" /\ ended.render = "failed") =>
        /\ "edit" \in ended.stages
        /\ ended.gen = "text" =>
              /\ ended.end = "finalized" /\ "score" \in ended.stages
              /\ ~ended.chart
              /\ \A i \in 1..Len(failed) : failed[i] # ended.path
        /\ ended.end = "failed" => ended.gen = "nothing"

\* C15 witness: a unit whose chart could not be rendered has been finalized
\* without chart reference.
C15_Witness ==
    /\ ended.end = "finalized" /\ ended.spec = "valid" /\ ended.render = "failed"
    /\ ~ended.chart /\ "render" \in ended.stages
    /\ finalized # << >> /\ finalized[Len(finalized)].path = ended.path
    /\ ~finalized[Len(finalized)].chart

\* labels is empty, or some dataset's values is empty or differs from labels
\* in length
BadShape(c) ==
    \/ c.labels = 0
    \/ \E i \in 1..Len(c.datasets) :
          Len(c.datasets[i]) = 0 \/ Len(c.datasets[i]) # c.labels

\* C16: a chart spec whose labels is empty, or one of whose datasets has
\* empty values or values of another length than labels, is rejected before
\* any rendering backend (model-authored code, plotly, matplotlib) is called,
\* in writer_pro_chart and in create_chart_from_description alike.
C16_ValidationPrecedesRendering ==
    (rend.entry # "none" /\ BadShape(rend.spec)) =>
        (~rend.valid /\ rend.tried = << >> /\ rend.out # "image")

\* C16 witness: writer_pro_chart was given two labels and a dataset of one
\* value, under backends that would all have drawn, and called none.
C16_Witness ==
    /\ rend.entry = "writer" /\ rend.spec.kind = "bar" /\ rend.spec.title
    /\ rend.spec.labels = 2 /\ rend.spec.datasets = << <<5>> >>
    /\ rend.tried = << >> /\ rend.out = "nochart"

\* C17: a chart spec all of whose values are zero or absent never gets a
\* chart path from writer_pro_chart, the rendering step of the pipeline.
C17_AllZeroNeverRenders ==
    (rend.entry = "writer" /\ AllZero(rend.spec)) => rend.out # "image"

\* the spec is well formed but for its kind
WellFormedButKind(c) == ValidateChartData([c EXCEPT !.kind = "bar"])

\* C18: an otherwise well-formed chart spec is accepted by validation exactly
\* when its kind is one of bar, line, pie, radar, area, scatter, bubble,
\* stacked_bar, heatmap, mixed.
C18_ClosedKindSet ==
    (rend.entry = "writer" /\ WellFormedButKind(rend.spec)) =>
        (rend.valid <=> rend.spec.kind \in ListedKinds)

\* no backend is called after one has reported success
StopsAtSuccess(t) == \A i \in 1..Len(t) : t[i].ok => i = Len(t)

\* matplotlib is called only right after a failed call of plotly
StaticAfterInteractive(t) ==
    \A i \in 1..Len(t) :
        t[i].by = "static" => (i > 1 /\ t[i - 1].by = "interactive" /\ ~t[i - 1].ok)

\* C19 (as stated): for a validated spec plotly is the first renderer
\* attempted, matplotlib is attempted only after plotly has failed, a table
\* is produced only after both have failed, and no renderer is attempted
\* after an earlier one has succeeded.
C19_InteractiveFirst ==
    (rend.entry # "none" /\ rend.valid) =>
        /\ rend.tried # << >> => rend.tried[1].by = "interactive"
        /\ StaticAfterInteractive(rend.tried)
        /\ rend.out = "table" =>
              /\ \E i \in 1..Len(rend.tried) : rend.tried[i].by = "interactive"
              /\ \E i \in 1..Len(rend.tried) : rend.tried[i].by = "static"
              /\ \A i \in 1..Len(rend.tried) : ~rend.tried[i].ok
        /\ StopsAtSuccess(rend.tried)

\* C19 (amended): for a validated spec writer_pro_chart runs the
\* model-authored plotting code first when a code block came back, and
\* plotly only after that code has failed or when none came back; in
\* create_chart_from_description plotly is first; matplotlib is attempted only
\* right after plotly has failed; no renderer is attempted after an earlier
\* one has reported success; and a table is produced only when no renderer
\* has left a PNG.
C19_CascadeOrder ==
    (rend.entry # "none" /\ rend.valid) =>
        /\ rend.tried # << >>
        /\ \A i \in 1..Len(rend.tried) :
              /\ rend.tried[i].by = "code" => (i = 1 /\ rend.entry = "writer")
              /\ rend.tried[i].by = "interactive" =>
                    (i = 1 \/ (rend.tried[i - 1].by \in {"code", "interactive"}
                               /\ ~rend.tried[i - 1].ok))
        /\ rend.entry = "embed" => rend.tried[1].by = "interactive"
        /\ StaticAfterInteractive(rend.tried)
        /\ StopsAtSuccess(rend.tried)
        /\ rend.out = "table" => ~rend.png

\* C19 witness: writer_pro_chart went through the whole cascade: the code
\* failed, plotly failed twice, matplotlib drew the chart.
C19_Witness ==
    /\ rend.entry = "writer" /\ rend.valid /\ rend.out = "image"
    /\ rend.tried = <<Try("code", FALSE), Try("interactive", FALSE),
                      Try("interactive", FALSE), Try("static", TRUE)>>

\* C20: for a spec with labels and at least one dataset of as many values,
\* rendering ends with a chart or with a Markdown table built from the
\* labels and datasets, never with neither.
C20_TableIsTerminal ==
    (rend.entry # "none" /\ FallbackTable(rend.spec)) => rend.out \in {"image", "table"}

\* the replies that carry no chart: nothing parsable (absent), the empty
\* object, an object of the expected form that validation rejects
NoChartKinds == {"unparsable", "empty", "invalid"}

C22_MalformedRejectedLocally ==
    (ended.end # "none"
        /\ {ended.flash, ended.pro} \cap {"unparsable", "list", "number", "dataNull", "datasetNumber"} # {}) =>
        /\ ended.end # "crashed"
        /\ ended.render = "none"

\* C23: the score evaluate_content_quality returns lies between 0 and 10,
\* is never above 10 less any one deduction that applies, and is 0 when the
\* deductions that apply sum to 10 or more.
C23_ScoreRange ==
    qual.done =>
        /\ qual.score \in 0..100
        /\ \A i \in 1..Len(Deductions(qual.text)) :
              qual.text.len # "short" => qual.score <= 100 - Deductions(qual.text)[i]
        /\ SumSeq(Deductions(qual.text)) >= 100 => qual.score = 0

\* C23 witness: a text of 300 to 800 characters with every deduction
\* applying (14.3 points) was given the score 0.
C23_Witness ==
    /\ qual.done /\ qual.text.len = "thin"
    /\ SumSeq(Deductions(qual.text)) = 143
    /\ qual.score = 0

\* the keyword score of chunk i for the query of the last retrieve
KwOf(i) == Cardinality(kb.query.words \cap kb.chunks[i].terms) * kb.chunks[i].weight * 100

\* the last retrieve went past its early returns
Ranked == kb.calls > 0 /\ kb.chunks # << >> /\ ~kb.query.blank

\* the chunks the last retrieve scored, each with its score: those of
\* positive similarity when the vector path gave any, else those of
\* positive keyword score
ScoredSet ==
    IF kb.vec = "sims" /\ \E i \in 1..Len(kb.chunks) : kb.sims[i] > 0
    THEN {[score |-> kb.sims[i] + KwOf(i) \div 10, idx |-> i] :
             i \in {j \in 1..Len(kb.chunks) : kb.sims[j] > 0}}
    ELSE {[score |-> KwOf(i), idx |-> i] : i \in {j \in 1..Len(kb.chunks) : KwOf(j) > 0}}

\* entry x ranks before entry y: greater score, or equal score and earlier
\* insertion
Before(x, y) == x.score > y.score \/ (x.score = y.score /\ x.idx < y.idx)

\* C24: the evidence block of retrieve lists at most top_k entries, in
\* descending order of combined score and, among equal scores, in ascending
\* insertion order; the entries are the first of the scored chunks in that
\* order.
C24_StableRanking ==
    Ranked =>
        /\ Len(kb.res) <= kb.topK
        /\ \A i, j \in 1..Len(kb.res) : i < j => Before(kb.res[i], kb.res[j])
        /\ \A x \in ScoredSet :
              (\A i \in 1..Len(kb.res) : kb.res[i] # x) =>
                  /\ Len(kb.res) = kb.topK
                  /\ \A i \in 1..Len(kb.res) : Before(kb.res[i], x)

\* C24 witness: three chunks were scored, the block holds two of them, of
\* equal score, and the one left out has that score too.
C24_Witness ==
    /\ Ranked /\ kb.topK = 2 /\ Len(kb.res) = 2 /\ Cardinality(ScoredSet) = 3
    /\ kb.res[1].score = kb.res[2].score
    /\ \A x \in ScoredSet : x.score = kb.res[1].score

\* the score the claim gives chunk i in the last retrieve
ClaimedScore(i) ==
    IF kb.vec = "sims" THEN kb.sims[i] + KwOf(i) \div 10 ELSE KwOf(i)

\* the smaller of two numbers
Min(a, b) == IF a < b THEN a ELSE b

\* C25 (as stated): when the index is in use and the query vector is not
\* degenerate, every chunk is ranked by similarity + 0.1 x keyword score;
\* otherwise every chunk is ranked by its keyword score alone.
C25_HybridScoreEveryChunk ==
    Ranked =>
        /\ \A i \in 1..Len(kb.res) : kb.res[i].score = ClaimedScore(kb.res[i].idx)
        /\ Len(kb.res) =
              Min(kb.topK, Cardinality({i \in 1..Len(kb.chunks) : ClaimedScore(i) > 0}))

\* C25 (amended): when the index is in use, the query vector is not
\* degenerate and some chunk has a positive similarity, the chunks of
\* positive similarity are ranked, each by similarity + 0.1 x keyword score,
\* and the others are left out; in every other case the chunks of positive
\* keyword score are ranked, each by its keyword score alone.
C25_HybridOrKeyword ==
    Ranked =>
        /\ \A i \in 1..Len(kb.res) : kb.res[i] \in ScoredSet
        /\ Len(kb.res) = Min(kb.topK, Cardinality(ScoredSet))

\* C25 witness: the index was in use, the query vector was not degenerate,
\* no chunk had a positive similarity, and two chunks are ranked by their
\* keyword scores.
C25_Witness ==
    /\ Ranked /\ kb.vec = "sims" /\ \A i \in 1..Len(kb.chunks) : kb.sims[i] = 0
    /\ Len(kb.res) = 2 /\ kb.res[1].score = 200 /\ kb.res[2].score = 100

\* C26: a call of retrieve in which computing the similarities raises
\* returns the keyword ranking and clears the capability flag; a cleared
\* flag is never set again, and a call that begins with the flag cleared
\* does not enter the vector path.
C26_PermanentDegradation ==
    [][/\ ~kb.useTfidf => ~kb'.useTfidf
       /\ (kb'.calls = kb.calls + 1 /\ kb'.vec = "raises") =>
              /\ ~kb'.useTfidf
              /\ \A i \in 1..Len(kb'.res) :
                    kb'.res[i].score =
                        Cardinality(kb'.query.words \cap kb'.chunks[kb'.res[i].idx].terms) * 100
              /\ Len(kb'.res) =
                    Min(kb'.topK,
                        Cardinality({i \in 1..Len(kb'.chunks) :
                                        kb'.query.words \cap kb'.chunks[i].terms # {}}))
       /\ (kb'.calls = kb.calls + 1 /\ ~kb.useTfidf) => kb'.vec = "none"]_vars

\* C26 witness: computing the similarities raised in the first call, and
\* the second call ranked two chunks without entering the vector path.
C26_Witness ==
    /\ kb.raisedAt = 1 /\ kb.calls = 2 /\ kb.vec = "none" /\ ~kb.useTfidf
    /\ Len(kb.res) = 2

\* the part of chunk k that the chunks before it do not cover: all of the
\* first chunk, and what follows the first chunk_overlap characters of a
\* later one
NonOverlap(k) ==
    IF k = 1 THEN split.chunks[k]
    ELSE SubSeq(split.chunks[k], split.overlap + 1, Len(split.chunks[k]))

RECURSIVE Rebuilt(_)
Rebuilt(k) == IF k = 0 THEN << >> ELSE Rebuilt(k - 1) \o NonOverlap(k)

\* C27: for a text chunked in fixed windows of chunk_size with an overlap
\* below chunk_size, the non-overlap regions of the chunks, concatenated in
\* order, are the text; every chunk has at most chunk_size characters and
\* none is empty.
C27_ChunkingCoverage ==
    split.done =>
        /\ Rebuilt(Len(split.chunks)) = split.content
        /\ \A k \in 1..Len(split.chunks) :
              Len(split.chunks[k]) \in 1..split.size

\* C27 witness: a text of five characters was chunked with size 3 and
\* overlap 1 into three chunks, the second beginning with the last
\* character of the first.
C27_Witness ==
    /\ split.done /\ Len(split.content) = 5 /\ split.size = 3 /\ split.overlap = 1
    /\ Len(split.chunks) = 3
    /\ split.chunks[2][1] = split.chunks[1][3]
    /\ split.content[1] # split.content[2]

\* the first document has the higher BM25 score and the higher weight
Dominates(a, b) == a.bm25 > b.bm25 /\ a.weight > b.weight

\* C28: a run of test_tier2.py over two documents, the first with the higher
\* BM25 score and the higher weight, does not end before
\* compute_relevance_score has scored them (the first one higher)
C28_ScoreOrdering ==
    (tier2.pc = "exited" /\ Dominates(tier2.a, tier2.b)) => tier2.scored

\* C29: while two processes look up and write the same query, no lookup
\* opens a cache file that does not load: the file it finds, if any, is a
\* complete record
C29_AtomicWrites ==
    [][\A q \in Queries : StartsLookup(q) => ~ReadsPartial(q)]_vars

\* the positions in the log of the summaries set while main was in chapter c
WritesIn(c) == {k \in DOMAIN rolling.log : rolling.log[k].chap = c}

\* a unit of section s of chapter c has been given to the generation
\* backend, with the section's plan
ReadIn(c, s) ==
    \E t \in DOMAIN trace, u \in DOMAIN outline[c].sections[s].subs :
        /\ trace[t].gen # "unasked"
        /\ trace[t].path = UnitPath(outline[c].title, outline[c].sections[s].title,
                                    outline[c].sections[s].subs[u])

\* the summary values the units of chapter c have read
ReadValues(c) ==
    {rolling.log[k].value : k \in {j \in WritesIn(c) : ReadIn(c, rolling.log[j].sec)}}

\* the summary is set at most once while main is in a chapter
WrittenOncePerChapter == \A c \in DOMAIN outline : Cardinality(WritesIn(c)) <= 1

\* the units of one chapter have read one summary value
SameSummaryInChapter == \A c \in DOMAIN outline : Cardinality(ReadValues(c)) <= 1

\* C30: the rolling summary is written once per chapter, and every unit of
\* a chapter reads the same summary value
C30_ChapterBarrier == WrittenOncePerChapter /\ SameSummaryInChapter

\* the file is a document load takes up, and reading it gives no text
FailsToLoad(f) == ~f.hidden /\ f.read # "text"

\* the files among the first n that fail to load, in order
RECURSIVE FailedAmong(_, _)
FailedAmong(files, n) ==
    IF n = 0 THEN << >>
    ELSE FailedAmong(files, n - 1)
         \o (IF FailsToLoad(files[n]) THEN <<n>> ELSE << >>)

\* the chunks of the texts among the first n files, file by file
RECURSIVE ChunksAmong(_, _)
ChunksAmong(files, n) ==
    IF n = 0 THEN << >>
    ELSE ChunksAmong(files, n - 1)
         \o (IF ~files[n].hidden /\ files[n].read = "text"
             THEN [k \in 1..files[n].n |-> [file |-> n, k |-> k]] ELSE << >>)

\* the files among the first n whose content is unreadable or empty
RECURSIVE UnreadableAmong(_, _)
UnreadableAmong(files, n) ==
    IF n = 0 THEN << >>
    ELSE UnreadableAmong(files, n - 1)
         \o (IF files[n].read # "text" THEN <<n>> ELSE << >>)

\* the chunks of every text among the first n files, file by file
RECURSIVE TextChunksAmong(_, _)
TextChunksAmong(files, n) ==
    IF n = 0 THEN << >>
    ELSE TextChunksAmong(files, n - 1)
         \o (IF files[n].read = "text"
             THEN [k \in 1..files[n].n |-> [file |-> n, k |-> k]] ELSE << >>)

\* C31 as stated: when load has ended, every file whose content is
\* unreadable or empty, and only those, is in failed_files, and the store
\* holds the chunks of every other file, in file order then chunk order
C31_FailSoftEveryFile ==
    loader.pc = "done" =>
        /\ loader.failed_files = UnreadableAmong(loader.files, Len(loader.files))
        /\ loader.chunks = TextChunksAmong(loader.files, Len(loader.files))

\* C31 amended: load ends only after the last file; the files it takes up
\* (those whose name does not start with a dot) that give no text, and
\* only they, are in failed_files, and the store holds the chunks of every
\* text it takes up, in file order then chunk order; a hidden file is
\* neither ingested nor recorded
C31_FailSoftIngestion ==
    /\ loader.pc = "files" =>
          /\ loader.failed_files = FailedAmong(loader.files, loader.i - 1)
          /\ loader.chunks = ChunksAmong(loader.files, loader.i - 1)
    /\ loader.pc = "done" =>
          /\ loader.failed_files = FailedAmong(loader.files, Len(loader.files))
          /\ loader.chunks = ChunksAmong(loader.files, Len(loader.files))

\* C31 witness: the load has ended, a file failed with an exception, and a
\* text after it is in the store
C31_Witness ==
    /\ loader.pc = "done"
    /\ \E i, j \in DOMAIN loader.files :
          /\ i < j
          /\ loader.files[i].read = "raises"
          /\ \E c \in DOMAIN loader.chunks : loader.chunks[c].file = j

\* the records under the fingerprint of q that have reached the TTL
ExpiredRecords(q) ==
    {f \in store : f.name = Fingerprint(q) /\ f.kind = "rec" /\ now - f.timestamp >= TTL}

\* C32: a lookup that finds only an expired record neither returns its
\* result nor touches its file; the cache directory changes only in a step
\* in which the backend has answered the query, only under the name of that
\* query, and a record written then takes the place of the expired one
C32_LazyExpiry ==
    [][/\ \A q \in Queries :
             (StartsLookup(q) /\ ExpiredRecords(q) # {} /\ FreshRecords(q) = {}) =>
                 /\ store' = store
                 /\ pc' = "idle" => Falsy(last'.ret)
       /\ store' # store =>
             /\ pc = "attempt" /\ CompletesCall /\ Succeeded(last')
             /\ \A f \in (store \ store') \cup (store' \ store) :
                    f.name = Fingerprint(last'.q)
             /\ last'.wrote = "ok" =>
                    \A f \in store' : (f.name = Fingerprint(last'.q) /\ f.kind = "rec")
                                          => now' - f.timestamp < TTL]_vars

\* C32 witness: a lookup entered more than a TTL after the record of its
\* query was written went to the backend and failed, and the record is
\* still in the cache directory
C32_Witness ==
    /\ OldRecord \in store
    /\ last.done /\ last.q = OldRecord.query
    /\ last.t0 - OldRecord.timestamp > TTL
    /\ last.resps # << >> /\ ~Succeeded(last)

\* the sub-headers of the text evaluated
SubHeaders == qual.text.h3 + qual.text.h4

\* C33: a text of at least 300 characters is deducted 2.5 points for its
\* structure when it has no sub-header, 1.0 when it has exactly one (of
\* level 3 or of level 4), and nothing when it has two or more
C33_StructuralRubric ==
    (qual.done /\ qual.text.len # "short") =>
        Deductions(qual.text)[2] =
            (CASE SubHeaders = 0 -> 25 [] SubHeaders = 1 -> 10 [] OTHER -> 0)

\* C35: the hints returned for a text are empty exactly when its score is
\* 10; a text below the quality threshold has a hint
C35_HintForEveryDeduction ==
    qual.done =>
        /\ (qual.hints = << >>) <=> (qual.score = 100)
        /\ qual.score < QUALITY_THRESHOLD => qual.hints # << >>

\* C35 witness: a text whose only shortcoming is a digit ratio between 2%
\* and 3%, which is reported as no issue, got 9.5 and one hint
C35_Witness ==
    /\ qual.done
    /\ qual.text = [FullText EXCEPT !.data = "mid"]
    /\ qual.score = 95
    /\ Len(qual.hints) = 1

\* the units main has left that ended as end
LeftAs(end) == {k \in DOMAIN trace : trace[k].end = end}

\* C34: every unit main has left as failed has one entry in
\* failed_sections and none among the generated sections, every unit left
\* as finalized has one entry among the generated sections and none in
\* failed_sections, no other unit has an entry in either, and no path is
\* in both
C34_FailureBookkeeping ==
    /\ Len(failed) = Cardinality(LeftAs("failed"))
    /\ Len(finalized) = Cardinality(LeftAs("finalized"))
    /\ \A i, j \in DOMAIN failed : failed[i] = failed[j] => i = j
    /\ \A i \in DOMAIN failed : \E k \in LeftAs("failed") : trace[k].path = failed[i]
    /\ \A i \in DOMAIN finalized :
          \E k \in LeftAs("finalized") : trace[k].path = finalized[i].path
    /\ \A i \in DOMAIN failed, j \in DOMAIN finalized : failed[i] # finalized[j].path

\* C34 witness: of two units of one section, one has failed without any
\* text from the generation backend and the other is finalized
C34_Witness ==
    /\ Len(failed) = 1 /\ Len(finalized) = 1
    /\ \E k \in LeftAs("failed") : trace[k].gen = "nothing"

\* there are files under the fingerprint of q, and each of them is either
\* unreadable as a JSON object or an object without timestamp
OnlyBrokenFiles(q) ==
    /\ \E f \in store : f.name = Fingerprint(q)
    /\ \A f \in store : f.name = Fingerprint(q) => f.kind \in {"junk", "raw"}

\* C36: a lookup that finds only such files under the fingerprint of its
\* query goes on as after a miss: without force and without trigger term it
\* returns "" at the gate, otherwise it goes to the backend; it returns
\* nothing from the file and leaves the file as it is
C36_BrokenRecordIsMiss ==
    [][\A q \in Queries \ {<< >>} :
          (StartsLookup(q) /\ keyPresent /\ OnlyBrokenFiles(q)) =>
              /\ store' = store
              /\ IF ~Started.force /\ ~HasTrigger(q)
                 THEN pc' = "idle" /\ last'.ret = "" /\ last'.resps = << >>
                 ELSE pc' = "attempt"]_vars

\* C36 witness: a lookup is at the backend while the file under the
\* fingerprint of its query is one that an earlier failed write truncated
C36_Witness ==
    /\ pc = "attempt"
    /\ \E f \in store : f.name = Fingerprint(call.q) /\ f.kind = "junk"

\* C37: a unit that went through the re-edit is finalized; its text and
\* score are those of the re-edited text when the re-edit returned one,
\* and those it had before when the re-edit returned nothing
C37_RefinementOutcome ==
    /\ ppc = "refine" => unit.body # ""
    /\ ended.retry # "unasked" =>
          /\ ended.end = "finalized"
          /\ finalized # << >>
          /\ LET f == finalized[Len(finalized)]
                 kept == IF ended.retry # "" THEN ended.retry ELSE ended.first
             IN  /\ f.path = ended.path
                 /\ f.body = kept
                 /\ f.score = EvaluateContentQuality(TextOf(kept))
                 /\ ended.path \notin {failed[i] : i \in DOMAIN failed}

\* C37 witness: the draft scored 7.5, the re-edit returned a text that
\* scores 6.0, and the unit is finalized with that text and 6.0
C37_Witness ==
    /\ ended.end = "finalized"
    /\ ended.first = "D" /\ ended.retry = "E1"
    /\ finalized[Len(finalized)].body = "E1"
    /\ finalized[Len(finalized)].score = 60

\* the backend attempts made so far for the unit in its evidence phase
UnitAttempts ==
    unit.gated.resps + (IF pc = "attempt" THEN Len(call.resps) ELSE Len(last.resps))

\* C38: for a unit search_web is called at most twice, the second time
\* forced and only after a gated lookup that returned nothing with local
\* evidence shorter than 500 characters; the backend is tried at most
\* 2 x max_retries times for the unit
C38_BoundedLookups ==
    /\ unit.lookups <= 2
    /\ ppc = "gated" => unit.lookups = 1 /\ ~(IF pc = "attempt" THEN call.force ELSE last.force)
    /\ ppc = "forced" =>
          /\ unit.lookups = 2
          /\ IF pc = "attempt" THEN call.force ELSE last.force
          /\ unit.gated.ret \in {"", NoneVal}
          /\ localCtx < SHORT_LOCAL_CTX
    /\ ppc \in {"gated", "forced"} => UnitAttempts <= 2 * DEFAULT_MAX_RETRIES
    /\ ppc \in {"generate", "refine"} => pc = "idle"

\* C38 witness: both lookups of a unit have used all their attempts
C38_Witness ==
    /\ ppc = "forced"
    /\ pc = "idle"
    /\ unit.lookups = 2
    /\ UnitAttempts = 2 * DEFAULT_MAX_RETRIES

\* main is at the head of the section loop, at a section whose file exists
AtExistingSection ==
    /\ ppc = "section"
    /\ si <= Len(Chap.sections)
    /\ SecFileName(Chap.title, Sec.title) \in DOMAIN secFiles

====
